---- MODULE Spec2Model ----
(***************************************************************************)
(* A model of devfire/dns-server: the wire codec (codec.rs, parsers.rs),   *)
(* the resolver mailbox (handlers/query_handler.rs, actors/query_actor.rs) *)
(* and the server loop (main.rs).                                          *)
(*                                                                         *)
(* Bytes are naturals 0..255, byte strings and names are sequences of      *)
(* bytes (a Rust String is its UTF-8 bytes), offsets are 0-based as in the *)
(* source: the byte at offset p of a buffer b is b[p + 1].                 *)
(***************************************************************************)
EXTENDS Naturals, Sequences, FiniteSets, TLC

VARIABLES
    cpc,        \* codec job: "idle" | "encode" | "decode" | "done"
    cin,        \* codec job input: a packet (encode) or a datagram (decode)
    cout,       \* codec job outcome
    corigin     \* the packet whose encoding cin is, when cin came from the encoder

codecVars == <<cpc, cin, cout, corigin>>

VARIABLES
    queue,      \* the mpsc channel's buffer: messages [name, respond_to], oldest first
    permits,    \* free permits of the channel's semaphore
    waiters,    \* requests suspended in sender.send, oldest first
    held,       \* the message a suspended sender still holds
    rpc,        \* where each call of resolve stands
    slot,       \* each call's oneshot channel: "none" | "open" | "closed" | "sent"
    actorPc,    \* QueryActor::run: "recv" | "lookup" | "panicked"
    inflight,   \* messages whose upstream lookup is in progress
    lastReturn, \* what the latest completed call of resolve returned
    nextReq,    \* calls of resolve are numbered in call order
    cancels,    \* callers that dropped their resolve future so far
    namePlan    \* which names the callers ask for

\* history of the mailbox, read by the claims only
VARIABLES
    enqLog,      \* requests in the order their messages entered the queue
    started,     \* requests whose lookup has started
    completed,   \* requests whose lookup completed and whose reply was sent or discarded
    discarded,   \* requests whose reply found the receiver gone
    everBlocked  \* requests that found the channel full

\* one DnsResponseBuilder and the assemblies made with it
VARIABLES
    rbPc,       \* "idle" | "fluent": a ResponseBuilder borrows the builder
    rbBuilder,  \* the DnsResponseBuilder: response_header, questions, answers
    rbQuery,    \* the query packet of the assembly in progress
    rbBuilt,    \* the latest packet built, with the query and the builder it came from
    rbApplied,  \* names of the fluent operations applied since DnsResponseBuilder::new
    rbOps,      \* number of operations applied to the builder
    rbCall,     \* the fluent call just made, when it is one of with_an_answer: name,
                \* argument, builder before
    rbFresh,    \* a builder made by new at the start of the assembly and given the
                \* same fluent calls
    rbReuse     \* "fresh" | "used" | "cleared": built with before, clear_answers since

builderVars == <<rbPc, rbBuilder, rbQuery, rbBuilt, rbApplied, rbOps, rbCall, rbFresh,
                 rbReuse>>

\* the server loop of main
VARIABLES
    mainPc,     \* "recv_from" | "resolve" | "send_to" | "panic" | "stack_overflow"
    sockq,      \* datagrams the socket holds for recv_from, oldest first
    arrivals,   \* datagrams that reached the socket so far
    cur,        \* the datagram of the current iteration: addr, buf[..len], packet
    qidx,       \* position of the `for question in packet.questions` loop
    builder,    \* the iteration's DnsResponseBuilder
    awaited,    \* the call of resolve the loop is suspended in
    outgoing,   \* the bytes handed to sock.send_to
    sent        \* datagrams sent so far: [to, bytes]

\* history of the server loop, read by the claims only
VARIABLES
    recvLog,    \* per datagram received: [addr, buf, kind], kind the outcome of decode
    resolveLog, \* per call of resolve that returned to main: [addr, name, value]
    buildLog    \* per response built: [addr, query, packet, encoded_ok]

serverVars == <<mainPc, sockq, arrivals, cur, qidx, builder, awaited, outgoing, sent,
                recvLog, resolveLog, buildLog>>
mailboxVars == <<queue, permits, waiters, held, rpc, slot, actorPc, inflight,
                 lastReturn, nextReq, cancels, namePlan>>
historyVars == <<enqLog, started, completed, discarded, everBlocked>>

-----------------------------------------------------------------------------
(* Bounds of the model.                                                    *)

MaxQuestions == 2   \* longest question list handed to the encoder
MaxAnswers == 2     \* longest answer list handed to the encoder
MaxBody == 5        \* longest enumerated datagram body after the header
MaxRequests == 10   \* calls of resolve in one run of the mailbox
MaxCancels == 1     \* callers that drop their resolve future in one run
MaxDatagrams == 2   \* datagrams that reach the socket in one run of the server
MaxBuilderOps == 3  \* operations applied to one DnsResponseBuilder

-----------------------------------------------------------------------------
(* Program constants.                                                      *)

HEADER_LEN == 12        \* codec.rs: decode needs 12 bytes, encode_header writes 12
MAX_LABEL == 63         \* codec.rs / parsers.rs: longest label
DOT == 46               \* '.'
DNS_TYPE_A == 1
DNS_TYPE_AAAA == 28
DNS_TYPE_CNAME == 5
DNS_TYPE_MX == 15
DNS_TYPE_TXT == 16
DNS_CLASS_IN == 1
BUF_LEN == 1024         \* main.rs: let mut buf = [0; 1024]

\* C7 mutant: mpsc::channel(16)
QueueCapacity16 == 2 * 8

QueueCapacity == 8      \* query_handler.rs: mpsc::channel(8)

-----------------------------------------------------------------------------
(* Byte-level helpers: BufMut::put_u16 / put_u32 and u16::from_be_bytes.   *)

put_u16(dst, x) == dst \o << (x \div 256) % 256, x % 256 >>

put_u32(dst, x) ==
    dst \o << (x \div 16777216) % 256, (x \div 65536) % 256,
              (x \div 256) % 256, x % 256 >>

\* the 16-bit big-endian value at offset p of b (p + 2 <= Len(b))
be_u16_at(b, p) == b[p + 1] * 256 + b[p + 2]

\* usize -> u16 cast
as_u16(n) == n % 65536

Bit(b) == IF b THEN 1 ELSE 0

-----------------------------------------------------------------------------
(* String::from_utf8_lossy: valid UTF-8 is kept, every maximal ill-formed  *)
(* subpart becomes U+FFFD (EF BF BD).                                      *)

REPLACEMENT == << 239, 191, 189 >>

Utf8Width(b) ==
    IF b >= 194 /\ b <= 223 THEN 2
    ELSE IF b >= 224 /\ b <= 239 THEN 3
    ELSE IF b >= 240 /\ b <= 244 THEN 4
    ELSE 0

Utf8SecondOk(lead, b) ==
    CASE lead = 224 -> b >= 160 /\ b <= 191
      [] lead = 237 -> b >= 128 /\ b <= 159
      [] lead = 240 -> b >= 144 /\ b <= 191
      [] lead = 244 -> b >= 128 /\ b <= 143
      [] OTHER      -> b >= 128 /\ b <= 191

Utf8Cont(b) == b >= 128 /\ b <= 191

RECURSIVE Utf8LossyFrom(_, _)
Utf8LossyFrom(s, i) ==
    IF i > Len(s) THEN << >>
    ELSE LET b == s[i]
             w == Utf8Width(b)
         IN IF b < 128 THEN << b >> \o Utf8LossyFrom(s, i + 1)
            ELSE IF w = 0 \/ i + 1 > Len(s) \/ ~Utf8SecondOk(b, s[i + 1])
                 THEN REPLACEMENT \o Utf8LossyFrom(s, i + 1)
            ELSE IF w = 2
                 THEN << b, s[i + 1] >> \o Utf8LossyFrom(s, i + 2)
            ELSE IF i + 2 > Len(s) \/ ~Utf8Cont(s[i + 2])
                 THEN REPLACEMENT \o Utf8LossyFrom(s, i + 2)
            ELSE IF w = 3
                 THEN << b, s[i + 1], s[i + 2] >> \o Utf8LossyFrom(s, i + 3)
            ELSE IF i + 3 > Len(s) \/ ~Utf8Cont(s[i + 3])
                 THEN REPLACEMENT \o Utf8LossyFrom(s, i + 3)
            ELSE << b, s[i + 1], s[i + 2], s[i + 3] >> \o Utf8LossyFrom(s, i + 4)

\* (a string of ASCII bytes is valid UTF-8 and is returned as it is)
from_utf8_lossy(s) ==
    IF \A i \in 1..Len(s) : s[i] < 128 THEN s ELSE Utf8LossyFrom(s, 1)

-----------------------------------------------------------------------------
(* str::split('.') and Vec<String>::join(".")                              *)

\* the offsets (1-based) of the dots of s, and the k-th of them in order
DotsOf(s) == { i \in 1..Len(s) : s[i] = DOT }

NthDot(s, k) ==
    IF k = 0 THEN 0
    ELSE IF k > Cardinality(DotsOf(s)) THEN Len(s) + 1
    ELSE CHOOSE i \in DotsOf(s) : Cardinality({ j \in DotsOf(s) : j < i }) = k - 1

\* split yields one more piece than there are dots, empty pieces included
split_dot(s) ==
    [k \in 1..(Cardinality(DotsOf(s)) + 1) |->
        SubSeq(s, NthDot(s, k - 1) + 1, NthDot(s, k) - 1)]

RECURSIVE join_dot(_)
join_dot(labels) ==
    IF labels = << >> THEN << >>
    ELSE IF Len(labels) = 1 THEN labels[1]
    ELSE labels[1] \o << DOT >> \o join_dot(Tail(labels))

-----------------------------------------------------------------------------
(* Encoder (codec.rs).  An encode outcome is [ok, dst]: dst is the output  *)
(* buffer after the call, whether it succeeded or returned                 *)
(* Err(InvalidDomainName).                                                 *)

encode_header(h, dst) ==
    LET flags == Bit(h.qr) * 32768 + (h.opcode % 16) * 2048
                 + Bit(h.aa) * 1024 + Bit(h.tc) * 512 + Bit(h.rd) * 256
                 + Bit(h.ra) * 128 + (h.z % 8) * 16 + (h.rcode % 16)
    IN put_u16(put_u16(put_u16(put_u16(put_u16(put_u16(dst,
           h.id), flags), h.qdcount), h.ancount), h.nscount), h.arcount)

\* C28 mutant: an empty label is written as a length byte of 0
RECURSIVE encode_labels_empty_kept(_, _)
encode_labels_empty_kept(labels, dst) ==
    IF labels = << >> THEN [ok |-> TRUE, dst |-> Append(dst, 0)]
    ELSE LET label == Head(labels)
         IN IF Len(label) > MAX_LABEL THEN [ok |-> FALSE, dst |-> dst]
            ELSE encode_labels_empty_kept(Tail(labels), (dst \o << Len(label) >>) \o label)

RECURSIVE encode_labels(_, _)
encode_labels(labels, dst) ==
    IF labels = << >> THEN [ok |-> TRUE, dst |-> Append(dst, 0)]
    ELSE LET label == Head(labels)
         IN IF Len(label) > MAX_LABEL THEN [ok |-> FALSE, dst |-> dst]
            ELSE IF label = << >> THEN encode_labels(Tail(labels), dst)
            ELSE encode_labels(Tail(labels), (dst \o << Len(label) >>) \o label)

\* C27 mutant: the labels after the first are neither checked nor written
encode_domain_name_first_label(domain_name, dst) ==
    encode_labels(<< split_dot(domain_name)[1] >>, dst)

encode_domain_name(domain_name, dst) == encode_labels(split_dot(domain_name), dst)

RECURSIVE encode_questions(_, _)
encode_questions(qs, dst) ==
    IF qs = << >> THEN [ok |-> TRUE, dst |-> dst]
    ELSE LET q == Head(qs)
             n == encode_domain_name(q.name, dst)
         IN IF ~n.ok THEN n
            ELSE encode_questions(Tail(qs), put_u16(put_u16(n.dst, q.qtype), q.qclass))

RECURSIVE encode_answers(_, _)
encode_answers(as, dst) ==
    IF as = << >> THEN [ok |-> TRUE, dst |-> dst]
    ELSE LET a == Head(as)
             n == encode_domain_name(a.name, dst)
         IN IF ~n.ok THEN n
            ELSE encode_answers(Tail(as),
                    put_u16(put_u32(put_u16(put_u16(n.dst, a.rtype), a.rclass), a.ttl),
                            as_u16(Len(a.rdata))) \o a.rdata)

\* C1 mutant: the header is written with the counts it declares
declared_header(item) == item.header

corrected_header(item) ==
    [item.header EXCEPT !.qdcount = as_u16(Len(item.questions)),
                        !.ancount = as_u16(Len(item.answers))]

encode(item, dst) ==
    LET hd == encode_header(corrected_header(item), dst)
        qs == encode_questions(item.questions, hd)
    IN IF ~qs.ok THEN qs ELSE encode_answers(item.answers, qs.dst)

-----------------------------------------------------------------------------
(* Decoder (parsers.rs, codec.rs).                                         *)
(*                                                                         *)
(* Every slice the parser handles is a suffix of full_packet, so a slice   *)
(* is represented by the offset pos at which it starts.  nom's `complete`  *)
(* parsers answer Err(Error(Eof)) on short input, never Incomplete.        *)
(*                                                                         *)
(* parse_name_recursive holds no depth cap and no visited set: every call  *)
(* is one native stack frame.  A chain of calls that is longer than the    *)
(* number of offsets of the packet has visited some offset twice with the  *)
(* same input, so it repeats for ever and the thread's stack overflows:    *)
(* StackLimit(full) is that number, and the outcome is "stack_overflow".   *)
(* Indexing full_packet[offset..] with offset > len panics: "panic".       *)

StackLimit(full_packet) == Len(full_packet) + 1

\* The recursion is written with accumulators: `labels` are the labels
\* collected by the enclosing calls, and `outer` is the cursor the outermost
\* call returns, which is fixed by the first pointer of the chain (the
\* `Ok((i, labels))` of the pointer arm drops the inner cursor) and is
\* << >> until then; the label arm passes the inner cursor up unchanged.

\* C34 mutant: the pointer arm hands up the cursor of the call it made
RECURSIVE parse_name_recursive_inner_cursor(_, _, _, _, _)
parse_name_recursive_inner_cursor(full_packet, pos, depth, labels, outer) ==
    IF depth > StackLimit(full_packet) THEN [kind |-> "stack_overflow"]
    ELSE IF pos >= Len(full_packet) THEN [kind |-> "error"]
    ELSE
    LET l == full_packet[pos + 1]
    IN IF l >= 192
       THEN IF pos + 1 >= Len(full_packet) THEN [kind |-> "error"]
            ELSE LET offset == (l % 64) * 256 + full_packet[pos + 2]
                 IN IF offset > Len(full_packet) THEN [kind |-> "panic"]
                    ELSE parse_name_recursive_inner_cursor(full_packet, offset, depth + 1,
                                                           labels, outer)
       ELSE IF l = 0
       THEN [kind |-> "ok", labels |-> labels, rest |-> pos + 1]
       ELSE IF l <= MAX_LABEL
       THEN IF pos + 1 + l > Len(full_packet) THEN [kind |-> "error"]
            ELSE parse_name_recursive_inner_cursor(full_packet, pos + 1 + l, depth + 1,
                     Append(labels, from_utf8_lossy(SubSeq(full_packet, pos + 2, pos + 1 + l))),
                     outer)
       ELSE [kind |-> "error"]

RECURSIVE parse_name_recursive(_, _, _, _, _)
parse_name_recursive(full_packet, pos, depth, labels, outer) ==
    IF depth > StackLimit(full_packet) THEN [kind |-> "stack_overflow"]
    ELSE IF pos >= Len(full_packet) THEN [kind |-> "error"]       \* be_u8(input)?
    ELSE
    LET l == full_packet[pos + 1]
    IN IF l >= 192                                                  \* (l & 0b1100_0000) == 0b1100_0000
       THEN IF pos + 1 >= Len(full_packet) THEN [kind |-> "error"]  \* be_u8(i)?
            ELSE LET offset == (l % 64) * 256 + full_packet[pos + 2]
                 IN IF offset > Len(full_packet) THEN [kind |-> "panic"]
                    ELSE parse_name_recursive(full_packet, offset, depth + 1, labels,
                             IF outer = << >> THEN << pos + 2 >> ELSE outer)
       ELSE IF l = 0
       THEN [kind |-> "ok", labels |-> labels,
             rest |-> IF outer = << >> THEN pos + 1 ELSE outer[1]]
       ELSE IF l <= MAX_LABEL
       THEN IF pos + 1 + l > Len(full_packet) THEN [kind |-> "error"]   \* take(l)(i)?
            ELSE parse_name_recursive(full_packet, pos + 1 + l, depth + 1,
                     Append(labels, from_utf8_lossy(SubSeq(full_packet, pos + 2, pos + 1 + l))),
                     outer)
       ELSE [kind |-> "error"]                                     \* nom::Err::Failure

parse_domain_name(full_packet, pos) ==
    LET r == parse_name_recursive(full_packet, pos, 1, << >>, << >>)
    IN IF r.kind # "ok" THEN r
       ELSE [kind |-> "ok", rest |-> r.rest, name |-> join_dot(r.labels)]

parse_dns_question(full_packet, pos) ==
    LET n == parse_domain_name(full_packet, pos)
    IN IF n.kind # "ok" THEN n
       ELSE IF n.rest + 2 > Len(full_packet) THEN [kind |-> "error"]   \* qtype
       ELSE IF n.rest + 4 > Len(full_packet) THEN [kind |-> "error"]   \* qclass
       ELSE [kind |-> "ok", rest |-> n.rest + 4,
             question |-> [name |-> n.name,
                           qtype |-> be_u16_at(full_packet, n.rest),
                           qclass |-> be_u16_at(full_packet, n.rest + 2)]]

\* C25 mutant: z is read as the four bits 7..4
parse_dns_packet_header_z_wide(input) ==
    LET flags == be_u16_at(input, 2)
    IN [id |-> be_u16_at(input, 0),
        qr |-> (flags \div 32768) % 2 = 1,
        opcode |-> (flags \div 2048) % 16,
        aa |-> (flags \div 1024) % 2 = 1,
        tc |-> (flags \div 512) % 2 = 1,
        rd |-> (flags \div 256) % 2 = 1,
        ra |-> (flags \div 128) % 2 = 1,
        z |-> (flags \div 16) % 16,
        rcode |-> flags % 16,
        qdcount |-> be_u16_at(input, 4),
        ancount |-> be_u16_at(input, 6),
        nscount |-> be_u16_at(input, 8),
        arcount |-> be_u16_at(input, 10)]

\* input of at least 12 bytes (decode checks it), so the six be_u16 succeed
parse_dns_packet_header(input) ==
    LET flags == be_u16_at(input, 2)
    IN [id |-> be_u16_at(input, 0),
        qr |-> (flags \div 32768) % 2 = 1,
        opcode |-> (flags \div 2048) % 16,
        aa |-> (flags \div 1024) % 2 = 1,
        tc |-> (flags \div 512) % 2 = 1,
        rd |-> (flags \div 256) % 2 = 1,
        ra |-> (flags \div 128) % 2 = 1,
        z |-> (flags \div 16) % 8,
        rcode |-> flags % 16,
        qdcount |-> be_u16_at(input, 4),
        ancount |-> be_u16_at(input, 6),
        nscount |-> be_u16_at(input, 8),
        arcount |-> be_u16_at(input, 10)]

\* C26 mutant: each question is put in front of the ones parsed before it
RECURSIVE parse_questions_newest_first(_, _, _, _)
parse_questions_newest_first(full_packet, pos, remaining, questions) ==
    IF remaining = 0 THEN [kind |-> "ok", rest |-> pos, questions |-> questions]
    ELSE LET q == parse_dns_question(full_packet, pos)
         IN IF q.kind # "ok" THEN q
            ELSE parse_questions_newest_first(full_packet, q.rest, remaining - 1,
                                              << q.question >> \o questions)

\* the `for _ in 0..header.qdcount` loop of parse_dns_packet
RECURSIVE parse_questions(_, _, _, _)
parse_questions(full_packet, pos, remaining, questions) ==
    IF remaining = 0 THEN [kind |-> "ok", rest |-> pos, questions |-> questions]
    ELSE LET q == parse_dns_question(full_packet, pos)
         IN IF q.kind # "ok" THEN q
            ELSE parse_questions(full_packet, q.rest, remaining - 1,
                                 Append(questions, q.question))

\* C31 mutant: the loop stops after the first question
parse_dns_packet_first_question(input) ==
    LET header == parse_dns_packet_header(input)
        qs == parse_questions(input, HEADER_LEN,
                              IF header.qdcount > 1 THEN 1 ELSE header.qdcount, << >>)
    IN IF qs.kind # "ok" THEN qs
       ELSE [kind |-> "ok", rest |-> qs.rest,
             packet |-> [header |-> header, questions |-> qs.questions,
                         answers |-> << >>]]

parse_dns_packet(input) ==
    LET header == parse_dns_packet_header(input)
        qs == parse_questions(input, HEADER_LEN, header.qdcount, << >>)
    IN IF qs.kind # "ok" THEN qs
       ELSE [kind |-> "ok", rest |-> qs.rest,
             packet |-> [header |-> header, questions |-> qs.questions,
                         answers |-> << >>]]

(* DnsCodec::decode.  Outcomes:                                            *)
(*   "none"           Ok(None), src untouched                              *)
(*   "packet"         Ok(Some(packet)), the consumed bytes split off src   *)
(*   "nom_error"      Err(DnsCodecError::NomError)                         *)
(*   "panic"          the calling task panics (slice index out of range)   *)
(*   "stack_overflow" the process aborts (unbounded recursion)             *)
\* C30 mutant: a buffer shorter than a header is emptied
decode_short_drained(src) ==
    IF Len(src) < HEADER_LEN THEN [kind |-> "none", src |-> << >>]
    ELSE LET r == parse_dns_packet(src)
         IN IF r.kind = "ok"
            THEN [kind |-> "packet", packet |-> r.packet,
                  src |-> SubSeq(src, r.rest + 1, Len(src))]
            ELSE IF r.kind = "error" THEN [kind |-> "nom_error", src |-> src]
            ELSE [kind |-> r.kind, src |-> src]

decode(src) ==
    IF Len(src) < HEADER_LEN THEN [kind |-> "none", src |-> src]
    ELSE LET r == parse_dns_packet(src)
         IN IF r.kind = "ok"
            THEN [kind |-> "packet", packet |-> r.packet,
                  src |-> SubSeq(src, r.rest + 1, Len(src))]
            ELSE IF r.kind = "error" THEN [kind |-> "nom_error", src |-> src]
            ELSE [kind |-> r.kind, src |-> src]

-----------------------------------------------------------------------------
(* Inputs of the codec jobs.                                               *)

SeqsUpTo(S, n) == UNION { [1..k -> S] : k \in 0..n }

NameAB == << 97, DOT, 98 >>                          \* "a.b"
NameBDot == << 98, DOT >>                            \* "b."
LongLabel == [i \in 1..(MAX_LABEL + 1) |-> 97]       \* 64 times 'a'
NameLong == (<< 98, DOT >> \o LongLabel) \o << DOT, 99 >>   \* "b.<64 a>.c"

Label63 == [i \in 1..MAX_LABEL |-> 97]               \* 63 times 'a'
Name63 == Label63 \o << DOT, 98 >>                   \* "<63 a>.b"
NameLongFirst == LongLabel \o << DOT, 98 >>          \* "<64 a>.b"
NameLongLast == << 98, DOT >> \o LongLabel           \* "b.<64 a>"
NameUtf8 == << 195, 169, DOT, 98 >>                  \* "\u00e9.b"
NameLeadDot == << DOT, 98 >>                         \* ".b"
NameDotDot == << 97, DOT, DOT, 98 >>                 \* "a..b"
NameB == << 98 >>                                    \* "b"

QuestionPool ==
    { [name |-> NameAB, qtype |-> DNS_TYPE_A, qclass |-> DNS_CLASS_IN],
      [name |-> NameBDot, qtype |-> DNS_TYPE_AAAA, qclass |-> DNS_CLASS_IN],
      [name |-> NameLong, qtype |-> DNS_TYPE_A, qclass |-> DNS_CLASS_IN] }

AnswerPool ==
    { [name |-> NameAB, rtype |-> DNS_TYPE_A, rclass |-> DNS_CLASS_IN, ttl |-> 60,
       rdlength |-> 4, rdata |-> << 192, 168, 1, 1 >>],
      [name |-> NameBDot, rtype |-> DNS_TYPE_AAAA, rclass |-> DNS_CLASS_IN, ttl |-> 300,
       rdlength |-> 16, rdata |-> [i \in 1..16 |-> i]] }

\* header counts that agree or disagree with the collections
DeclaredCounts == { 0, 1, 2, 99, 65535 }

HeaderPool ==
    { [id |-> 4660, qr |-> qr, opcode |-> op, aa |-> qr, tc |-> FALSE, rd |-> TRUE,
       ra |-> qr, z |-> 0, rcode |-> 0, qdcount |-> qd, ancount |-> an,
       nscount |-> 0, arcount |-> 0] :
      qr \in BOOLEAN, op \in { 0, 2 }, qd \in DeclaredCounts, an \in DeclaredCounts }

\* the header of a client's query with qd questions
QueryHeader(qd) ==
    [id |-> 4660, qr |-> FALSE, opcode |-> 0, aa |-> FALSE, tc |-> FALSE, rd |-> TRUE,
     ra |-> FALSE, z |-> 0, rcode |-> 0, qdcount |-> qd, ancount |-> 0,
     nscount |-> 0, arcount |-> 0]

\* headers with every flag bit and field in use, and with an opcode, a z or
\* an rcode (u8 fields) that does not fit the bits the wire gives it
WideHeaders ==
    { [id |-> 65535, qr |-> TRUE, opcode |-> f[1], aa |-> FALSE, tc |-> TRUE,
       rd |-> FALSE, ra |-> TRUE, z |-> f[2], rcode |-> f[3], qdcount |-> 0,
       ancount |-> 0, nscount |-> 1, arcount |-> 2] :
      f \in { << 15, 7, 15 >>, << 16, 0, 3 >>, << 0, 8, 0 >>, << 1, 5, 16 >> } }

\* packets with these headers and the counts of their lists
WidePackets ==
    { [header |-> [h EXCEPT !.qdcount = Len(qs), !.ancount = Len(as)],
       questions |-> qs, answers |-> as] :
      h \in WideHeaders,
      qs \in SeqsUpTo(QuestionPool, MaxQuestions),
      as \in SeqsUpTo(AnswerPool, MaxAnswers) }

\* names at the edges of the name encoder: label lengths 63 and 64 at every
\* position, a two-byte character, empty labels
EdgeQuestions ==
    { [name |-> n, qtype |-> DNS_TYPE_A, qclass |-> DNS_CLASS_IN] :
      n \in { Name63, NameLongFirst, NameLongLast, NameUtf8, NameLeadDot, NameDotDot,
               NameAB, NameB } }

EdgeAnswers ==
    { [name |-> n, rtype |-> DNS_TYPE_A, rclass |-> DNS_CLASS_IN, ttl |-> 60,
       rdlength |-> 4, rdata |-> << 192, 168, 1, 1 >>] :
      n \in { NameLong, NameDotDot } }

EdgePackets ==
    { [header |-> [QueryHeader(Len(qs)) EXCEPT !.ancount = Len(as)],
       questions |-> qs, answers |-> as] :
      qs \in SeqsUpTo(EdgeQuestions, MaxQuestions),
      as \in SeqsUpTo(EdgeAnswers, 1) }

PacketPool ==
    { [header |-> h, questions |-> qs, answers |-> as] :
      h \in HeaderPool,
      qs \in SeqsUpTo(QuestionPool, MaxQuestions),
      as \in SeqsUpTo(AnswerPool, MaxAnswers) }
    \cup WidePackets \cup EdgePackets

\* datagram bodies: every byte string up to MaxBody over bytes that matter to
\* the name parser (terminator, short label, offset 12, reserved prefix,
\* pointer tag, a far offset)
BodyBytes == { 0, 1, 12, 64, 192, 255 }

EnumeratedDatagrams ==
    { encode_header(QueryHeader(qd), << >>) \o body :
      qd \in 0..2, body \in SeqsUpTo(BodyBytes, MaxBody) }

\* buffers shorter than a header
ShortDatagrams == { [i \in 1..n |-> 7] : n \in 0..(HEADER_LEN - 1) }

\* two pointers that point at each other (offsets 12 and 14)
PointerCycle == encode_header(QueryHeader(1), << >>) \o << 192, 14, 192, 12 >>

\* two questions, the first "c" + a pointer forward to the name "a.b" of the
\* second (offset 20)
PointerForward ==
    encode_header(QueryHeader(2), << >>)
        \o << 1, 99, 192, 20, 0, 28, 0, 1 >>
        \o << 1, 97, 1, 98, 0, 0, 1, 0, 1 >>

\* two questions, the second "c" + a pointer back into the first name, at
\* its label "b" (offset 14)
PointerBack ==
    encode_header(QueryHeader(2), << >>)
        \o << 1, 97, 1, 98, 0, 0, 1, 0, 1 >>
        \o << 1, 99, 192, 14, 0, 28, 0, 1 >>

\* two questions, the second name nothing but a pointer to the first
PointerWhole ==
    encode_header(QueryHeader(2), << >>)
        \o << 1, 97, 1, 98, 0, 0, 1, 0, 1 >>
        \o << 192, 12, 0, 16, 0, 3 >>

CraftedDatagrams == { PointerCycle, PointerForward, PointerBack, PointerWhole }

DatagramPool == EnumeratedDatagrams \cup ShortDatagrams \cup CraftedDatagrams

-----------------------------------------------------------------------------
(* Resolver mailbox (handlers/query_handler.rs, actors/query_actor.rs).    *)
(*                                                                         *)
(* QueryActorHandle::new makes a bounded mpsc channel and spawns the one   *)
(* task that runs QueryActor::run.  A bounded tokio channel is a buffer    *)
(* and a semaphore of `capacity` permits: send takes a permit and pushes,  *)
(* recv pops and gives the permit back; a permit given back goes to the    *)
(* longest-suspended sender, if there is one.                              *)
(*                                                                         *)
(* A call of resolve is a request r.  resolve suspends at most twice: in   *)
(* sender.send(msg).await (channel full) and in recv.await.  What resolve  *)
(* does after recv.await reads only the call's own oneshot, so it is part  *)
(* of the step that writes the oneshot.                                    *)

Requests == 1..MaxRequests

NamePool == << NameAB, NameBDot >>

\* the name request r asks for
RequestName(r) ==
    IF namePlan = "same" THEN NamePool[1]
    ELSE NamePool[((r - 1) % Len(NamePool)) + 1]

\* Addresses carry the name they were looked up for (`of`), which the code
\* does not have: it is how a claim tells whose answer an address is.
V4(name) == [of |-> name, v6 |-> FALSE, octets |-> << 192, 168, 1, 1 >>]
V6(name) == [of |-> name, v6 |-> TRUE, octets |-> [i \in 1..16 |-> i]]

\* what resolver.lookup_ip(&name).await may come back with: Err(e), or
\* Ok(lookup) with no, one or two addresses
UpstreamOutcomes(name) ==
    { [ok |-> FALSE, ips |-> << >>],
      [ok |-> TRUE, ips |-> << >>],
      [ok |-> TRUE, ips |-> << V4(name) >>],
      [ok |-> TRUE, ips |-> << V6(name), V4(name) >>] }

None == [some |-> FALSE, ips |-> << >>]
Some(ips) == [some |-> TRUE, ips |-> ips]

NoMsg == [name |-> << >>, respond_to |-> 0]
NoReturn == [req |-> 0]

\* C8 mutant: every message asks for the first name
ResolveMsgStaleName(r, name) == [name |-> NamePool[1], respond_to |-> r]

\* QueryActorMessage::Resolve { name, respond_to: send }
ResolveMsg(r, name) == [name |-> name, respond_to |-> r]

\* C9 mutant: the reply is Some(ips) whenever the lookup succeeded
reply_of_unchecked(outcome) == IF outcome.ok THEN Some(outcome.ips) ELSE None

\* the value handle_message sends for a lookup outcome
reply_of(outcome) ==
    IF outcome.ok
    THEN IF outcome.ips # << >> THEN Some(outcome.ips) ELSE None
    ELSE None

\* C10 mutant: respond_to.send(..).unwrap()
after_send_unwrap(send_ok) == IF send_ok THEN "recv" ELSE "panicked"

\* `let _ = respond_to.send(..)`: the Err of a dropped receiver is ignored and
\* handle_message returns to the loop of run
after_send(send_ok) == "recv"

\* what resolve makes of the received Option
resolve_result(received) == IF received.some THEN Some(received.ips) ELSE None

\* C6 mutant: the worker takes the newest message
mpsc_recv_newest(q) == [msg |-> q[Len(q)], rest |-> SubSeq(q, 1, Len(q) - 1)]

\* self.receiver.recv(): the oldest message of the buffer
mpsc_recv(q) == [msg |-> Head(q), rest |-> Tail(q)]

MailboxInit ==
    /\ queue = << >>
    /\ permits = QueueCapacity
    /\ waiters = << >>
    /\ held = [r \in Requests |-> NoMsg]
    /\ rpc = [r \in Requests |-> "new"]
    /\ slot = [r \in Requests |-> "none"]
    /\ actorPc = "recv"
    /\ inflight = { }
    /\ lastReturn = NoReturn
    /\ nextReq = 1
    /\ cancels = 0
    /\ enqLog = << >>
    /\ started = { }
    /\ completed = { }
    /\ discarded = { }
    /\ everBlocked = { }

\* resolve(name) up to its first suspension: the oneshot is made, send is
\* polled: with a free permit the message is pushed and resolve goes on to
\* recv.await, without one the sender joins the semaphore's queue.
ResolveCall(r, name) ==
    /\ rpc[r] = "new"
    /\ slot' = [slot EXCEPT ![r] = "open"]
    /\ IF permits > 0
       THEN /\ permits' = permits - 1
            /\ queue' = Append(queue, ResolveMsg(r, name))
            /\ enqLog' = Append(enqLog, r)
            /\ rpc' = [rpc EXCEPT ![r] = "await_reply"]
            /\ UNCHANGED <<waiters, held, everBlocked>>
       ELSE /\ waiters' = Append(waiters, r)
            /\ held' = [held EXCEPT ![r] = ResolveMsg(r, name)]
            /\ everBlocked' = everBlocked \cup {r}
            /\ rpc' = [rpc EXCEPT ![r] = "blocked"]
            /\ UNCHANGED <<permits, queue, enqLog>>
    /\ UNCHANGED <<actorPc, inflight, lastReturn, cancels, namePlan,
                   started, completed, discarded>>
    /\ UNCHANGED <<codecVars, builderVars>>

\* a sender that was handed a permit is polled again and pushes its message
SendResume(r) ==
    /\ rpc[r] = "woken"
    /\ queue' = Append(queue, held[r])
    /\ held' = [held EXCEPT ![r] = NoMsg]
    /\ enqLog' = Append(enqLog, r)
    /\ rpc' = [rpc EXCEPT ![r] = "await_reply"]
    /\ UNCHANGED <<permits, waiters, slot, actorPc, inflight, lastReturn, nextReq,
                   cancels, namePlan, started, completed, discarded, everBlocked>>
    /\ UNCHANGED <<codecVars, builderVars, serverVars>>

\* C5 mutant: run hands the message to a spawned task and receives again
ActorRecvSpawned ==
    /\ actorPc = "recv"
    /\ queue # << >>
    /\ LET got == mpsc_recv(queue)
       IN /\ queue' = got.rest
          /\ inflight' = inflight \cup { got.msg }
          /\ started' = started \cup { got.msg.respond_to }
    /\ IF waiters # << >>
       THEN /\ rpc' = [rpc EXCEPT ![Head(waiters)] = "woken"]
            /\ waiters' = Tail(waiters)
            /\ UNCHANGED permits
       ELSE /\ permits' = permits + 1
            /\ UNCHANGED <<rpc, waiters>>
    /\ UNCHANGED <<actorPc, held, slot, lastReturn, nextReq, cancels, namePlan,
                   enqLog, completed, discarded, everBlocked>>
    /\ UNCHANGED <<codecVars, builderVars, serverVars>>

\* C37 mutant: recv pops the message and keeps its permit
ActorRecvPermitKept ==
    /\ actorPc = "recv"
    /\ queue # << >>
    /\ LET got == mpsc_recv(queue)
       IN /\ queue' = got.rest
          /\ inflight' = inflight \cup { got.msg }
          /\ started' = started \cup { got.msg.respond_to }
    /\ actorPc' = "lookup"
    /\ UNCHANGED <<permits, rpc, waiters>>
    /\ UNCHANGED <<held, slot, lastReturn, nextReq, cancels, namePlan,
                   enqLog, completed, discarded, everBlocked>>
    /\ UNCHANGED <<codecVars, builderVars, serverVars>>

\* run: receiver.recv() yields the oldest message and its permit goes back;
\* handle_message starts lookup_ip(&name) and suspends in it
ActorRecv ==
    /\ actorPc = "recv"
    /\ queue # << >>
    /\ LET got == mpsc_recv(queue)
       IN /\ queue' = got.rest
          /\ inflight' = inflight \cup { got.msg }
          /\ started' = started \cup { got.msg.respond_to }
    /\ IF waiters # << >>
       THEN /\ rpc' = [rpc EXCEPT ![Head(waiters)] = "woken"]
            /\ waiters' = Tail(waiters)
            /\ UNCHANGED permits
       ELSE /\ permits' = permits + 1
            /\ UNCHANGED <<rpc, waiters>>
    /\ actorPc' = "lookup"
    /\ UNCHANGED <<held, slot, lastReturn, nextReq, cancels, namePlan,
                   enqLog, completed, discarded, everBlocked>>
    /\ UNCHANGED <<codecVars, builderVars, serverVars>>

\* handle_message after lookup_ip: the reply is sent on respond_to; a live
\* receiver takes it and its resolve returns, a dropped one makes send fail
LookupComplete ==
    /\ actorPc = "lookup"
    /\ \E msg \in inflight : \E outcome \in UpstreamOutcomes(msg.name) :
        LET r == msg.respond_to
            send_ok == slot[r] = "open"
        IN /\ inflight' = inflight \ { msg }
           /\ completed' = completed \cup { r }
           /\ IF send_ok
              THEN /\ slot' = [slot EXCEPT ![r] = "sent"]
                   /\ rpc' = [rpc EXCEPT ![r] = "returned"]
                   /\ lastReturn' = [req |-> r, name |-> msg.name, outcome |-> outcome,
                                     value |-> resolve_result(reply_of(outcome))]
                   /\ UNCHANGED discarded
              ELSE /\ discarded' = discarded \cup { r }
                   /\ UNCHANGED <<slot, rpc, lastReturn>>
           /\ actorPc' = after_send(send_ok)
    /\ UNCHANGED <<queue, permits, waiters, held, nextReq, cancels, namePlan,
                   enqLog, started, everBlocked>>
    /\ UNCHANGED <<codecVars, builderVars, serverVars>>

\* the caller drops its resolve future while it waits in recv.await: the
\* oneshot receiver is dropped, the message stays where it is
Cancel(r) ==
    /\ rpc[r] = "await_reply"
    /\ cancels < MaxCancels
    /\ rpc' = [rpc EXCEPT ![r] = "dropped"]
    /\ slot' = [slot EXCEPT ![r] = "closed"]
    /\ cancels' = cancels + 1
    /\ UNCHANGED <<queue, permits, waiters, held, actorPc, inflight, lastReturn,
                   nextReq, namePlan>>
    /\ UNCHANGED historyVars
    /\ UNCHANGED <<codecVars, builderVars, serverVars>>

-----------------------------------------------------------------------------
(* Response builder (response_builder.rs).  A builder is the record        *)
(* [response_header, questions, answers]; the fluent operations take the   *)
(* builder and return it changed.                                          *)

DnsResponseBuilder_new ==
    [response_header |->
        [id |-> 0, qr |-> TRUE, opcode |-> 0, aa |-> FALSE, tc |-> FALSE, rd |-> FALSE,
         ra |-> TRUE, z |-> 0, rcode |-> 0, qdcount |-> 0, ancount |-> 0,
         nscount |-> 0, arcount |-> 0],
     questions |-> << >>,
     answers |-> << >>]

with_rcode(b, rcode) == [b EXCEPT !.response_header.rcode = rcode]
with_qr(b, qr) == [b EXCEPT !.response_header.qr = qr]
with_z(b, z) == [b EXCEPT !.response_header.z = z]
\* C21 mutant: setting aa puts the response code back to 0
with_authoritative_rcode_reset(b, aa) ==
    [b EXCEPT !.response_header.aa = aa, !.response_header.rcode = 0]

with_authoritative(b, aa) == [b EXCEPT !.response_header.aa = aa]
with_recursion_available(b, ra) == [b EXCEPT !.response_header.ra = ra]

\* DnsResourceRecord::new: rdlength is rdata.len() as u16
DnsResourceRecord_new(name, rtype, rclass, ttl, rdata) ==
    [name |-> name, rtype |-> rtype, rclass |-> rclass, ttl |-> ttl,
     rdlength |-> as_u16(Len(rdata)), rdata |-> rdata]

\* C23 mutant: the question is added to the questions the builder holds
with_an_answer_question_appended(b, domain, ip, ttl) ==
    LET question == [name |-> domain, qtype |-> DNS_TYPE_A, qclass |-> DNS_CLASS_IN]
        answer == DnsResourceRecord_new(domain, DNS_TYPE_A, DNS_CLASS_IN, ttl, ip.octets)
        answers == Append(b.answers, answer)
    IN [response_header |-> [b.response_header EXCEPT !.qdcount = 1,
                                                      !.ancount = as_u16(Len(answers))],
        questions |-> Append(b.questions, question),
        answers |-> answers]

\* C38 mutant: the question is set only when the builder holds none
with_an_answer_first_question(b, domain, ip, ttl) ==
    LET question == [name |-> domain, qtype |-> DNS_TYPE_A, qclass |-> DNS_CLASS_IN]
        answer == DnsResourceRecord_new(domain, DNS_TYPE_A, DNS_CLASS_IN, ttl, ip.octets)
        answers == Append(b.answers, answer)
    IN [response_header |-> [b.response_header EXCEPT !.qdcount = 1,
                                                      !.ancount = as_u16(Len(answers))],
        questions |-> IF b.questions = << >> THEN << question >> ELSE b.questions,
        answers |-> answers]

with_an_answer(b, domain, ip, ttl) ==
    LET question == [name |-> domain, qtype |-> DNS_TYPE_A, qclass |-> DNS_CLASS_IN]
        answer == DnsResourceRecord_new(domain, DNS_TYPE_A, DNS_CLASS_IN, ttl, ip.octets)
        answers == Append(b.answers, answer)
    IN [response_header |-> [b.response_header EXCEPT !.qdcount = 1,
                                                      !.ancount = as_u16(Len(answers))],
        questions |-> << question >>,
        answers |-> answers]

with_question(b, domain, qtype, qclass) ==
    [response_header |-> [b.response_header EXCEPT !.qdcount = 1, !.ancount = 1],
     questions |-> << [name |-> domain, qtype |-> qtype, qclass |-> qclass] >>,
     answers |-> b.answers]

with_a_record(b, domain) == with_question(b, domain, DNS_TYPE_A, DNS_CLASS_IN)
with_aaaa_record(b, domain) == with_question(b, domain, DNS_TYPE_AAAA, DNS_CLASS_IN)
with_cname_record(b, domain) == with_question(b, domain, DNS_TYPE_CNAME, DNS_CLASS_IN)
with_mx_record(b, domain) == with_question(b, domain, DNS_TYPE_MX, DNS_CLASS_IN)
with_txt_record(b, domain) == with_question(b, domain, DNS_TYPE_TXT, DNS_CLASS_IN)

with_aaaa_answer(b, domain, ip, ttl) ==
    LET question == [name |-> domain, qtype |-> DNS_TYPE_AAAA, qclass |-> DNS_CLASS_IN]
        answer == DnsResourceRecord_new(domain, DNS_TYPE_AAAA, DNS_CLASS_IN, ttl, ip.octets)
        answers == Append(b.answers, answer)
    IN [response_header |-> [b.response_header EXCEPT !.qdcount = 1,
                                                      !.ancount = as_u16(Len(answers))],
        questions |-> << question >>,
        answers |-> answers]

\* self.builder.answers.push(answer); ancount = answers.len() as u16
push_answer(b, answer) ==
    LET answers == Append(b.answers, answer)
    IN [b EXCEPT !.answers = answers,
                 !.response_header.ancount = as_u16(Len(answers))]

as_u8(n) == n % 256

\* the `for label in name.split('.')` loops that write a name into rdata
RECURSIVE labels_data(_)
labels_data(labels) ==
    IF labels = << >> THEN << >>
    ELSE IF Head(labels) = << >> THEN labels_data(Tail(labels))
    ELSE (<< as_u8(Len(Head(labels))) >> \o Head(labels)) \o labels_data(Tail(labels))

name_data(name) == Append(labels_data(split_dot(name)), 0)

with_cname_answer(b, domain, cname, ttl) ==
    push_answer(b, DnsResourceRecord_new(domain, DNS_TYPE_CNAME, DNS_CLASS_IN, ttl,
                                         name_data(cname)))

with_txt_answer(b, domain, text, ttl) ==
    push_answer(b, DnsResourceRecord_new(domain, DNS_TYPE_TXT, DNS_CLASS_IN, ttl,
                                         << as_u8(Len(text)) >> \o text))

with_mx_answer(b, domain, priority, exchange, ttl) ==
    push_answer(b, DnsResourceRecord_new(domain, DNS_TYPE_MX, DNS_CLASS_IN, ttl,
                                         put_u16(<< >>, priority) \o name_data(exchange)))

clear_answers(b) == [b EXCEPT !.answers = << >>]

\* C16 mutant: build_response leaves the identifier of the template
build_response_id_kept(b, query_packet) ==
    [header |-> [b.response_header EXCEPT !.rd = query_packet.header.rd,
                                          !.qdcount = query_packet.header.qdcount,
                                          !.ancount = query_packet.header.qdcount],
     questions |-> query_packet.questions,
     answers |-> b.answers]

build_response(b, query_packet) ==
    [header |-> [b.response_header EXCEPT !.id = query_packet.header.id,
                                          !.rd = query_packet.header.rd,
                                          !.qdcount = query_packet.header.qdcount,
                                          !.ancount = query_packet.header.qdcount],
     questions |-> query_packet.questions,
     answers |-> b.answers]

\* C20 mutant: build leaves the rcode that with_rcode set
build_rcode_kept(b, query_packet) ==
    IF b.questions # << >>
    THEN [header |-> [b.response_header EXCEPT
                          !.id = query_packet.header.id,
                          !.rd = query_packet.header.rd,
                          !.opcode = query_packet.header.opcode],
          questions |-> b.questions,
          answers |-> b.answers]
    ELSE build_response(b, query_packet)

build(b, query_packet) ==
    IF b.questions # << >>
    THEN [header |-> [b.response_header EXCEPT
                          !.id = query_packet.header.id,
                          !.rd = query_packet.header.rd,
                          !.opcode = query_packet.header.opcode,
                          !.rcode = IF query_packet.header.opcode = 0 THEN 0 ELSE 4],
          questions |-> b.questions,
          answers |-> b.answers]
    ELSE build_response(b, query_packet)

-----------------------------------------------------------------------------
(* The life of one DnsResponseBuilder (response_builder.rs): it is made by *)
(* new, build_custom_response lends it to a ResponseBuilder together with  *)
(* a query, the fluent operations change it, build ends the loan and       *)
(* returns a packet; build_response and clear_answers are called on the    *)
(* builder itself.  The builder keeps what it holds from one assembly to   *)
(* the next.                                                               *)

NoQuery == [header |-> [id |-> 0], questions |-> << >>, answers |-> << >>]
NoBuilt == [kind |-> "none"]
NoCall == [name |-> "none"]

BuilderIdle ==
    /\ rbPc = "idle"
    /\ rbBuilder = DnsResponseBuilder_new
    /\ rbQuery = NoQuery
    /\ rbBuilt = NoBuilt
    /\ rbApplied = { }
    /\ rbOps = 0
    /\ rbCall = NoCall
    /\ rbFresh = DnsResponseBuilder_new
    /\ rbReuse = "fresh"

\* query packets handed to the builder, as decode makes them: qdcount is the
\* size of the question list
BuilderQuestionLists ==
    { << >>,
      << [name |-> NameAB, qtype |-> DNS_TYPE_A, qclass |-> DNS_CLASS_IN] >> }

BuilderQueries ==
    UNION { { [header |-> [QueryHeader(qd) EXCEPT !.id = h[1], !.opcode = h[2],
                                                  !.rd = h[3]],
               questions |-> qs, answers |-> << >>] :
              h \in { << 4660, 0, TRUE >>, << 7, 2, FALSE >> },
              qd \in { Len(qs) } } :
            qs \in BuilderQuestionLists }

BuilderFrame == UNCHANGED <<codecVars, mailboxVars, historyVars, serverVars>>

BuildCustomResponse ==
    /\ rbPc = "idle"
    /\ \E query_packet \in BuilderQueries : rbQuery' = query_packet
    /\ rbPc' = "fluent"
    /\ UNCHANGED <<rbBuilder, rbBuilt, rbApplied, rbOps, rbCall, rbFresh, rbReuse>>
    /\ BuilderFrame

\* one fluent operation on the borrowed builder: b is what it makes of the
\* builder, fresh what it makes of rbFresh
Fluent(name, arg, b, fresh) ==
    /\ rbPc = "fluent"
    /\ rbOps < MaxBuilderOps
    /\ rbBuilder' = b
    /\ rbFresh' = fresh
    /\ rbCall' = IF name = "with_an_answer"
                 THEN [name |-> name, arg |-> arg, before |-> rbBuilder]
                 ELSE NoCall
    /\ rbApplied' = rbApplied \cup { name }
    /\ rbOps' = rbOps + 1
    /\ UNCHANGED <<rbPc, rbQuery, rbBuilt, rbReuse>>
    /\ BuilderFrame

WithRcode ==
    Fluent("with_rcode", 3, with_rcode(rbBuilder, 3), with_rcode(rbFresh, 3))
WithQr ==
    Fluent("with_qr", FALSE, with_qr(rbBuilder, FALSE), with_qr(rbFresh, FALSE))
WithZ ==
    Fluent("with_z", 5, with_z(rbBuilder, 5), with_z(rbFresh, 5))
WithAuthoritative ==
    Fluent("with_authoritative", TRUE,
           with_authoritative(rbBuilder, TRUE), with_authoritative(rbFresh, TRUE))
WithRecursionAvailable ==
    Fluent("with_recursion_available", FALSE,
           with_recursion_available(rbBuilder, FALSE),
           with_recursion_available(rbFresh, FALSE))

WithQuestion ==
    \/ Fluent("with_question", 255,
              with_question(rbBuilder, NameBDot, 255, 3),
              with_question(rbFresh, NameBDot, 255, 3))
    \/ Fluent("with_question", DNS_TYPE_A,
              with_a_record(rbBuilder, NameBDot), with_a_record(rbFresh, NameBDot))
    \/ Fluent("with_question", DNS_TYPE_AAAA,
              with_aaaa_record(rbBuilder, NameBDot), with_aaaa_record(rbFresh, NameBDot))
    \/ Fluent("with_question", DNS_TYPE_CNAME,
              with_cname_record(rbBuilder, NameBDot), with_cname_record(rbFresh, NameBDot))
    \/ Fluent("with_question", DNS_TYPE_MX,
              with_mx_record(rbBuilder, NameBDot), with_mx_record(rbFresh, NameBDot))
    \/ Fluent("with_question", DNS_TYPE_TXT,
              with_txt_record(rbBuilder, NameBDot), with_txt_record(rbFresh, NameBDot))

WithAnAnswer ==
    \E ip \in { V4(NameAB), V6(NameAB) } :
        Fluent("with_an_answer", ip,
               with_an_answer(rbBuilder, NameAB, ip, 60),
               with_an_answer(rbFresh, NameAB, ip, 60))
WithAaaaAnswer ==
    Fluent("with_aaaa_answer", V6(NameBDot),
           with_aaaa_answer(rbBuilder, NameBDot, V6(NameBDot), 300),
           with_aaaa_answer(rbFresh, NameBDot, V6(NameBDot), 300))
WithCnameAnswer ==
    Fluent("with_cname_answer", NameBDot,
           with_cname_answer(rbBuilder, NameAB, NameBDot, 300),
           with_cname_answer(rbFresh, NameAB, NameBDot, 300))
\* the texts a caller passes to with_txt_answer: "hi", and one of 256 bytes,
\* the shortest whose length does not fit a byte
LongText == [i \in 1..256 |-> 120]
TxtTexts == { << 104, 105 >>, LongText }

WithTxtAnswer ==
    \E text \in TxtTexts :
        Fluent("with_txt_answer", Len(text),
               with_txt_answer(rbBuilder, NameAB, text, 300),
               with_txt_answer(rbFresh, NameAB, text, 300))
WithMxAnswer ==
    Fluent("with_mx_answer", NameBDot,
           with_mx_answer(rbBuilder, NameAB, 10, NameBDot, 300),
           with_mx_answer(rbFresh, NameAB, 10, NameBDot, 300))

\* a packet was returned: the builder's header is the header of the packet;
\* fresh is the packet the same call returns for rbFresh
Built(kind, query_packet, packet, fresh) ==
    /\ rbOps < MaxBuilderOps
    /\ rbOps' = rbOps + 1
    /\ rbBuilt' = [kind |-> kind, query |-> query_packet, before |-> rbBuilder,
                   applied |-> rbApplied, packet |-> packet,
                   fresh |-> fresh, reuse |-> rbReuse]
    /\ rbBuilder' = [rbBuilder EXCEPT !.response_header = packet.header]
    /\ rbQuery' = NoQuery
    /\ rbPc' = "idle"
    /\ rbCall' = NoCall
    /\ rbFresh' = DnsResponseBuilder_new
    /\ rbReuse' = "used"
    /\ UNCHANGED rbApplied
    /\ BuilderFrame

Build ==
    /\ rbPc = "fluent"
    /\ Built("build", rbQuery, build(rbBuilder, rbQuery), build(rbFresh, rbQuery))

BuildResponse ==
    /\ rbPc = "idle"
    /\ \E query_packet \in BuilderQueries :
          Built("build_response", query_packet, build_response(rbBuilder, query_packet),
                build_response(rbFresh, query_packet))

\* clear_answers on a used builder, before the next assembly
ClearAnswers ==
    /\ rbPc = "idle"
    /\ rbReuse = "used"
    /\ rbBuilder' = clear_answers(rbBuilder)
    /\ rbReuse' = "cleared"
    /\ UNCHANGED <<rbPc, rbQuery, rbBuilt, rbApplied, rbOps, rbCall, rbFresh>>
    /\ BuilderFrame

-----------------------------------------------------------------------------
(* Server loop (main.rs).  main is one task: it owns the socket, the codec *)
(* and the QueryActorHandle, and is the only caller of resolve.  Its       *)
(* suspension points are sock.recv_from, query_actor_handle.resolve and    *)
(* sock.send_to; what it does between two of them is one step.  A panic or *)
(* a stack overflow in decode happens on the task of main and ends the     *)
(* process.                                                                *)

NoDatagram == [addr |-> 0]
NoBuilder == [questions |-> << >>]

ServerIdle ==
    /\ mainPc = "recv_from"
    /\ sockq = << >>
    /\ arrivals = 0
    /\ cur = NoDatagram
    /\ qidx = 0
    /\ builder = NoBuilder
    /\ awaited = 0
    /\ outgoing = << >>
    /\ sent = << >>
    /\ recvLog = << >>
    /\ resolveLog = << >>
    /\ buildLog = << >>

\* datagrams clients send: queries of no, one and two questions, a query of
\* opcode 2, a query whose label is 22 bytes that are not UTF-8, a query
\* with an OPT record in its additional section (arcount 1), a datagram
\* shorter than a header, a reserved label prefix, a question cut short, two
\* pointers that point at each other, a pointer beyond the end of the datagram
ClientQuery(id, names) ==
    encode([header |-> [QueryHeader(Len(names)) EXCEPT !.id = id],
            questions |-> [i \in 1..Len(names) |->
                              [name |-> names[i], qtype |-> DNS_TYPE_A,
                               qclass |-> DNS_CLASS_IN]],
            answers |-> << >>], << >>).dst

StatusQuery ==
    encode([header |-> [QueryHeader(1) EXCEPT !.id = 4, !.opcode = 2],
            questions |-> << [name |-> NameBDot, qtype |-> DNS_TYPE_AAAA,
                              qclass |-> DNS_CLASS_IN] >>,
            answers |-> << >>], << >>).dst

BadUtf8Query ==
    ((encode_header([QueryHeader(1) EXCEPT !.id = 5], << >>)
        \o << 22 >>) \o [i \in 1..22 |-> 255]) \o << 0, 0, 1, 0, 1 >>

\* the query for "a.b" followed by an OPT pseudo-record: root name, type 41,
\* UDP payload size 4096, no options
EdnsQuery ==
    encode([header |-> [QueryHeader(1) EXCEPT !.id = 6, !.arcount = 1],
            questions |-> << [name |-> NameAB, qtype |-> DNS_TYPE_A,
                              qclass |-> DNS_CLASS_IN] >>,
            answers |-> << >>], << >>).dst
        \o << 0, 0, 41, 16, 0, 0, 0, 0, 0, 0, 0 >>

ClientDatagrams ==
    { ClientQuery(1, << >>),
      ClientQuery(2, << NameAB >>),
      ClientQuery(3, << NameAB, NameBDot >>),
      StatusQuery,
      BadUtf8Query,
      EdnsQuery,
      << 7, 7, 7, 7, 7 >>,
      encode_header(QueryHeader(1), << >>) \o << 64 >>,
      encode_header(QueryHeader(1), << >>) \o << 1, 97, 0, 0 >>,
      PointerCycle,
      encode_header(QueryHeader(1), << >>) \o << 192, 64 >> }

\* a client's datagram reaches the socket
Arrive ==
    /\ arrivals < MaxDatagrams
    /\ \E bytes \in ClientDatagrams :
          sockq' = Append(sockq, [addr |-> arrivals + 1, bytes |-> bytes])
    /\ arrivals' = arrivals + 1
    /\ UNCHANGED <<mainPc, cur, qidx, builder, awaited, outgoing, sent>>
    /\ UNCHANGED <<recvLog, resolveLog, buildLog>>
    /\ UNCHANGED <<codecVars, builderVars, mailboxVars, historyVars>>

\* C14 mutant: the addresses are added last first
RECURSIVE add_answers_last_first(_, _, _)
add_answers_last_first(b, name, ip_addrs) ==
    IF ip_addrs = << >> THEN b
    ELSE add_answers_last_first(
             with_an_answer(b, name, ip_addrs[Len(ip_addrs)], 60), name,
             SubSeq(ip_addrs, 1, Len(ip_addrs) - 1))

\* the `for ip_addr in ip_addrs` loop of main
RECURSIVE add_answers(_, _, _)
add_answers(b, name, ip_addrs) ==
    IF ip_addrs = << >> THEN b
    ELSE add_answers(with_an_answer(b, name, Head(ip_addrs), 60), name, Tail(ip_addrs))

\* main calls resolve for question i and is suspended in it
AskQuestion(c, b, i) ==
    /\ nextReq <= MaxRequests
    /\ ResolveCall(nextReq, c.packet.questions[i].name)
    /\ nextReq' = nextReq + 1
    /\ awaited' = nextReq
    /\ cur' = c
    /\ qidx' = i
    /\ builder' = b
    /\ mainPc' = "resolve"
    /\ UNCHANGED <<outgoing, buildLog>>

\* C12 mutant: whatever encode wrote is sent
RespondPartial(c, b) ==
    /\ \E response_packet \in { build(b, c.packet) } :
       \E encoded \in { encode(response_packet, << >>) } :
          /\ outgoing' = encoded.dst
          /\ buildLog' = Append(buildLog, [addr |-> c.addr, query |-> c.packet,
                                           packet |-> response_packet,
                                           encoded_ok |-> encoded.ok])
    /\ cur' = c
    /\ qidx' = 0
    /\ builder' = b
    /\ awaited' = 0
    /\ mainPc' = "send_to"
    /\ UNCHANGED <<mailboxVars, historyVars, codecVars, builderVars>>

\* after the last question: build, encode, and main is suspended in send_to
\* with the encoded response, or with the received bytes if encode failed
Respond(c, b) ==
    /\ \E response_packet \in { build(b, c.packet) } :
       \E encoded \in { encode(response_packet, << >>) } :
          /\ outgoing' = IF encoded.ok THEN encoded.dst ELSE c.buf
          /\ buildLog' = Append(buildLog, [addr |-> c.addr, query |-> c.packet,
                                           packet |-> response_packet,
                                           encoded_ok |-> encoded.ok])
    /\ cur' = c
    /\ qidx' = 0
    /\ builder' = b
    /\ awaited' = 0
    /\ mainPc' = "send_to"
    /\ UNCHANGED <<mailboxVars, historyVars, codecVars, builderVars>>

\* the iteration ends without a datagram sent, or the process ends
Skip(pc) ==
    /\ mainPc' = pc
    /\ cur' = NoDatagram
    /\ qidx' = 0
    /\ builder' = NoBuilder
    /\ awaited' = 0
    /\ outgoing' = << >>
    /\ UNCHANGED buildLog
    /\ UNCHANGED <<mailboxVars, historyVars, codecVars, builderVars>>

\* the bytes recv_from writes to buf: at most BUF_LEN of the datagram
received_bytes(bytes) ==
    SubSeq(bytes, 1, IF Len(bytes) < BUF_LEN THEN Len(bytes) ELSE BUF_LEN)

\* C15 mutant: with_recursion_available(false) is left out
response_builder_fluent_ra_kept ==
    with_z(with_authoritative(with_qr(DnsResponseBuilder_new, TRUE), FALSE), 0)

\* C36 mutant: one builder for the whole loop; an iteration starts from what
\* the iteration before left in it
response_builder_shared ==
    IF buildLog = << >>
    THEN with_z(with_recursion_available(with_authoritative(
             with_qr(DnsResponseBuilder_new, TRUE), FALSE), FALSE), 0)
    ELSE [questions |-> buildLog[Len(buildLog)].packet.questions,
          answers |-> buildLog[Len(buildLog)].packet.answers,
          response_header |-> buildLog[Len(buildLog)].packet.header]

\* the builder main starts every response from
response_builder_fluent ==
    with_z(with_recursion_available(with_authoritative(
        with_qr(DnsResponseBuilder_new, TRUE), FALSE), FALSE), 0)

\* sock.recv_from returns: decode, start the response, call resolve for the
\* first question
MainRecv ==
    /\ mainPc = "recv_from"
    /\ sockq # << >>
    /\ sockq' = Tail(sockq)
    /\ \E buf \in { received_bytes(Head(sockq).bytes) } :
       \E decoded \in { decode(buf) } :
          /\ recvLog' = Append(recvLog, [addr |-> Head(sockq).addr, buf |-> buf,
                                         kind |-> decoded.kind])
          /\ IF decoded.kind = "packet"
             THEN \E c \in { [addr |-> Head(sockq).addr, buf |-> buf,
                              packet |-> decoded.packet] } :
                     IF c.packet.questions # << >>
                     THEN AskQuestion(c, response_builder_fluent, 1)
                     ELSE Respond(c, response_builder_fluent)
             ELSE IF decoded.kind \in { "none", "nom_error" }
             THEN Skip("recv_from")
             ELSE Skip(decoded.kind)
    /\ UNCHANGED <<arrivals, sent, resolveLog>>

\* what the body of the `for question` loop makes of the value of resolve
answers_added(b, name, resolved) ==
    IF resolved.some THEN add_answers(b, name, resolved.ips) ELSE b

\* resolve returns: the addresses become answers, then the next question is
\* asked or the response is built
MainResume ==
    /\ mainPc = "resolve"
    /\ rpc[awaited] = "returned"
    /\ \E b \in { answers_added(builder, cur.packet.questions[qidx].name,
                                 lastReturn.value) } :
          IF qidx < Len(cur.packet.questions)
          THEN AskQuestion(cur, b, qidx + 1)
          ELSE Respond(cur, b)
    /\ resolveLog' = Append(resolveLog,
                            [addr |-> cur.addr, name |-> cur.packet.questions[qidx].name,
                             value |-> lastReturn.value])
    /\ UNCHANGED <<sockq, arrivals, sent, recvLog>>

\* sock.send_to returns and the loop goes back to recv_from
MainSendTo ==
    /\ mainPc = "send_to"
    /\ sent' = Append(sent, [to |-> cur.addr, bytes |-> outgoing])
    /\ mainPc' = "recv_from"
    /\ cur' = NoDatagram
    /\ qidx' = 0
    /\ builder' = NoBuilder
    /\ awaited' = 0
    /\ outgoing' = << >>
    /\ UNCHANGED <<sockq, arrivals, recvLog, resolveLog, buildLog>>
    /\ UNCHANGED <<mailboxVars, historyVars, codecVars, builderVars>>

-----------------------------------------------------------------------------
(* The mailbox under concurrent callers: up to MaxRequests tasks call      *)
(* resolve, each at any time, and may drop the call while it waits.        *)

NoOrigin == [kind |-> "none"]

CodecIdle ==
    cpc = "idle" /\ cin = << >> /\ cout = [kind |-> "pending"] /\ corigin = NoOrigin

SpecMailboxInit ==
    /\ MailboxInit
    /\ namePlan \in { "alternate", "same" }
    /\ CodecIdle
    /\ ServerIdle
    /\ BuilderIdle

Call ==
    /\ nextReq <= MaxRequests
    /\ ResolveCall(nextReq, RequestName(nextReq))
    /\ nextReq' = nextReq + 1
    /\ UNCHANGED serverVars

MailboxNext ==
    \/ Call
    \/ \E r \in Requests : SendResume(r)
    \/ ActorRecv
    \/ LookupComplete
    \/ \E r \in Requests : Cancel(r)

vars == <<cpc, cin, cout, corigin, queue, permits, waiters, held, rpc, slot, actorPc, inflight,
          lastReturn, nextReq, cancels, namePlan,
          enqLog, started, completed, discarded, everBlocked,
          mainPc, sockq, arrivals, cur, qidx, builder, awaited, outgoing, sent,
          recvLog, resolveLog, buildLog,
          rbPc, rbBuilder, rbQuery, rbBuilt, rbApplied, rbOps, rbCall, rbFresh, rbReuse>>

SpecMailbox == SpecMailboxInit /\ [][MailboxNext]_vars

\* the runtime polls a woken sender and the worker task, and every upstream
\* lookup completes
SpecMailboxFair ==
    /\ SpecMailbox
    /\ WF_vars(ActorRecv)
    /\ WF_vars(LookupComplete)
    /\ \A r \in Requests : WF_vars(SendResume(r))

-----------------------------------------------------------------------------
(* The codec jobs: one call of DnsCodec::encode on an empty output buffer, *)
(* or one call of DnsCodec::decode, on an input drawn from the pools; the  *)
(* bytes that encode wrote may be handed to decode.                        *)

CodecInit ==
    /\ CodecIdle
    /\ MailboxInit
    /\ namePlan = "alternate"
    /\ ServerIdle
    /\ BuilderIdle

\* a caller hands a packet to the encoder
SubmitPacket ==
    /\ cpc = "idle"
    /\ \E item \in PacketPool : cin' = item
    /\ cpc' = "encode"
    /\ UNCHANGED <<cout, corigin, mailboxVars, historyVars, serverVars, builderVars>>

\* a caller hands a datagram to the decoder
SubmitDatagram ==
    /\ cpc = "idle"
    /\ \E src \in DatagramPool : cin' = src
    /\ cpc' = "decode"
    /\ UNCHANGED <<cout, corigin, mailboxVars, historyVars, serverVars, builderVars>>

\* the buffer a successful encode filled is handed to the decoder
SubmitEncoded ==
    /\ cpc = "done"
    /\ cout.kind = "encoded"
    /\ cout.result.ok
    /\ cin' = cout.result.dst
    /\ corigin' = [kind |-> "packet", packet |-> cin]
    /\ cpc' = "decode"
    /\ UNCHANGED <<cout, mailboxVars, historyVars, serverVars, builderVars>>

Encode ==
    /\ cpc = "encode"
    /\ cout' = [kind |-> "encoded", result |-> encode(cin, << >>)]
    /\ cpc' = "done"
    /\ UNCHANGED <<cin, corigin, mailboxVars, historyVars, serverVars, builderVars>>

Decode ==
    /\ cpc = "decode"
    /\ cout' = decode(cin)
    /\ cpc' = "done"
    /\ UNCHANGED <<cin, corigin, mailboxVars, historyVars, serverVars, builderVars>>

CodecNext == SubmitPacket \/ SubmitDatagram \/ SubmitEncoded \/ Encode \/ Decode

SpecCodec == CodecInit /\ [][CodecNext]_vars

-----------------------------------------------------------------------------
(* The server: clients' datagrams arrive at the socket at any time, main   *)
(* runs its loop, the mailbox worker serves main's calls of resolve.  main *)
(* has at most one call of resolve outstanding, so no send finds the       *)
(* channel full, and main never drops a call.                              *)

Init ==
    /\ ServerIdle
    /\ MailboxInit
    /\ namePlan = "alternate"
    /\ CodecIdle
    /\ BuilderIdle

Next ==
    \/ Arrive
    \/ MainRecv
    \/ ActorRecv
    \/ LookupComplete
    \/ MainResume
    \/ MainSendTo

Spec == Init /\ [][Next]_vars

-----------------------------------------------------------------------------
(* The builder on its own: any queries, any fluent operations, in any      *)
(* order.                                                                  *)

SpecBuilderInit ==
    /\ BuilderIdle
    /\ ServerIdle
    /\ MailboxInit
    /\ namePlan = "alternate"
    /\ CodecIdle

BuilderNext ==
    \/ BuildCustomResponse
    \/ WithRcode
    \/ WithQr
    \/ WithZ
    \/ WithAuthoritative
    \/ WithRecursionAvailable
    \/ WithQuestion
    \/ WithAnAnswer
    \/ WithAaaaAnswer
    \/ WithCnameAnswer
    \/ WithTxtAnswer
    \/ WithMxAnswer
    \/ Build
    \/ BuildResponse
    \/ ClearAnswers

SpecBuilder == SpecBuilderInit /\ [][BuilderNext]_vars

-----------------------------------------------------------------------------
(* Claims about the codec, checked under SpecCodec.                        *)

Encoded == cpc = "done" /\ cout.kind = "encoded"
Decoded == cpc = "done" /\ cout.kind # "encoded"

\* C1: for every packet given to the encoder, whatever qdcount and ancount its
\* header declares, the bytes written at offsets 4..6 are the number of
\* questions and the bytes at offsets 6..8 the number of answers, big-endian.
C1_CountSelfCorrection ==
    Encoded =>
        /\ Len(cout.result.dst) >= HEADER_LEN
        /\ be_u16_at(cout.result.dst, 4) = Len(cin.questions)
        /\ be_u16_at(cout.result.dst, 6) = Len(cin.answers)

\* C1 witness: a packet whose declared counts both disagree with its non-empty
\* collections has been encoded.
C1_Witness ==
    /\ Encoded
    /\ cout.result.ok
    /\ Len(cin.questions) = 2 /\ cin.header.qdcount = 99
    /\ Len(cin.answers) = 1 /\ cin.header.ancount = 0

\* C2 (as claimed): decoding ends in a packet, a need-more-data result or a
\* parse failure on every datagram, also one whose name holds a compression
\* pointer that points at itself or into a cycle; it never recurses without end.
C2_DecoderTerminates == Decoded => cout.kind # "stack_overflow"

\* the first question's name starts with a compression pointer whose 14-bit
\* offset lies beyond the end of the datagram
FarPointer(dgram) ==
    /\ Len(dgram) >= HEADER_LEN + 2
    /\ be_u16_at(dgram, 4) >= 1
    /\ dgram[HEADER_LEN + 1] >= 192
    /\ (dgram[HEADER_LEN + 1] % 64) * 256 + dgram[HEADER_LEN + 2] > Len(dgram)

\* C3 (as claimed): a datagram whose name holds a compression pointer beyond
\* the end of the datagram is answered with a parse-failure error value; the
\* decoder and its caller are never aborted.
C3_FarPointerIsParseFailure ==
    (Decoded /\ FarPointer(cin)) => cout.kind = "nom_error"

-----------------------------------------------------------------------------
(* Claim about the server loop, checked under Spec.                        *)

LoopRunning == mainPc \notin { "panic", "stack_overflow" }
LookupPending == queue # << >> \/ inflight # { }

\* C4 (as claimed): the server loop waits only on the socket receive: while it
\* runs it is suspended nowhere but in recv_from, so a datagram that is waiting
\* at the socket while an earlier datagram's lookup is pending or its response
\* is being sent can be received at once.
C4_LoopWaitsOnlyOnSocket ==
    /\ LoopRunning => mainPc = "recv_from"
    /\ (LoopRunning /\ sockq # << >> /\ LookupPending) => ENABLED MainRecv


-----------------------------------------------------------------------------
(* Claims about the mailbox, checked under SpecMailbox.                    *)

Enqueued == { enqLog[i] : i \in 1..Len(enqLog) }
Queued == { queue[i].respond_to : i \in 1..Len(queue) }
Woken == { r \in Requests : rpc[r] = "woken" }
Suspended == { waiters[i] : i \in 1..Len(waiters) }
EnqPos(r) == CHOOSE i \in 1..Len(enqLog) : enqLog[i] = r

\* C5: at most one upstream lookup is in progress at any time: while a lookup
\* is in progress the worker has taken no further request, so the request in
\* progress is the only one that was started and has no reply written yet.
C5_OneLookupAtATime ==
    /\ Cardinality(inflight) <= 1
    /\ Cardinality(started \ completed) <= 1
    /\ \A m \in inflight : started \ completed = { m.respond_to }
    /\ (actorPc = "recv") => (inflight = { } /\ started \subseteq completed)

\* C5 witness: a lookup is in progress while two more requests wait in the
\* queue and an earlier lookup has completed.
C5_Witness ==
    /\ Cardinality(inflight) = 1
    /\ Len(queue) >= 2
    /\ completed # { }

\* C6: the mailbox serves requests in enqueue order across all callers: if A
\* was enqueued before B and the lookup for B has started, then the lookup for
\* A has completed and its reply was written before.
C6_FifoAcrossCallers ==
    \A i \in 1..Len(enqLog) : \A j \in 1..Len(enqLog) :
        (i < j /\ enqLog[j] \in started) => enqLog[i] \in completed

\* C6 witness: a later caller's message entered the queue ahead of an earlier
\* caller's (the earlier one was suspended), and both have been served.
C6_Witness ==
    \E i \in 1..Len(enqLog) : \E j \in 1..Len(enqLog) :
        /\ i < j /\ enqLog[i] > enqLog[j]
        /\ rpc[enqLog[i]] = "returned" /\ rpc[enqLog[j]] = "returned"

\* C7: the queue never holds more than 8 pending requests; a caller is
\* suspended only while all 8 slots are taken, keeps its message while it is
\* suspended, and every caller past the send has its message enqueued exactly
\* once and still queued or taken by the worker: no request is dropped.
C7_BoundedQueueBackpressure ==
    /\ Len(queue) <= 8
    /\ Suspended # { } => (permits = 0 /\ Len(queue) + Cardinality(Woken) = 8)
    /\ \A r \in Requests :
        /\ rpc[r] = "blocked" => (r \in Suspended /\ held[r].respond_to = r /\ r \notin Enqueued)
        /\ rpc[r] = "woken" => (held[r].respond_to = r /\ r \notin Enqueued)
        /\ rpc[r] \in { "await_reply", "returned", "dropped" } =>
              /\ Cardinality({ i \in 1..Len(enqLog) : enqLog[i] = r }) = 1
              /\ r \in Queued \cup started

\* C7 witness: a caller that found the queue full has been enqueued and served.
C7_Witness ==
    \E r \in everBlocked : rpc[r] = "returned" /\ lastReturn.req = r

\* C8: every call of resolve gets the result of the lookup done for its own
\* name, and gets it once: the value returned to request r comes from a lookup
\* of r's name, a served request has no message left anywhere, and a reply is
\* either delivered to its own caller or discarded.
C8_ReplyToOwnCaller ==
    /\ lastReturn # NoReturn =>
          /\ lastReturn.name = RequestName(lastReturn.req)
          /\ \A i \in 1..Len(lastReturn.value.ips) :
                lastReturn.value.ips[i].of = RequestName(lastReturn.req)
          /\ rpc[lastReturn.req] = "returned"
    /\ \A r \in Requests :
          /\ (rpc[r] = "returned") = (slot[r] = "sent")
          /\ rpc[r] = "returned" => r \in completed \ discarded
          /\ r \in completed =>
                /\ r \notin Queued
                /\ \A m \in inflight : m.respond_to # r
                /\ rpc[r] \in { "returned", "dropped" }

\* C8 witness: with callers asking for different names, a caller of the second
\* name got addresses while requests for both names were still queued.
C8_Witness ==
    /\ namePlan = "alternate"
    /\ lastReturn # NoReturn
    /\ lastReturn.value.some
    /\ lastReturn.name = NamePool[2]
    /\ Len(queue) >= 2

\* C9: resolve returns Some(list) only with a non-empty list that is the
\* upstream's list in the upstream's order, and None both when the upstream
\* returned no address and when the lookup failed.
C9_SomeNonEmptyElseNone ==
    lastReturn # NoReturn =>
        LET v == lastReturn.value
            o == lastReturn.outcome
        IN /\ v.some => (v.ips # << >> /\ o.ok /\ v.ips = o.ips)
           /\ ~v.some => (v.ips = << >> /\ (~o.ok \/ o.ips = << >>))
           /\ (o.ok /\ o.ips # << >>) => v.some

\* C9 witness: Some of two addresses returned.
C9_Witness ==
    /\ lastReturn # NoReturn
    /\ lastReturn.value.some
    /\ Len(lastReturn.value.ips) = 2

\* C10: when a caller has dropped its reply slot before the result is written,
\* its request stays with the worker until its lookup has completed; the step
\* that completes it discards the result, leaves the queue as it is and puts
\* the worker back at the receive; the worker never fails, and while a request
\* is in the queue or in progress the worker's next step is enabled.
C10_WorkerOutlivesDroppedCaller ==
    /\ [](actorPc \in { "recv", "lookup" })
    /\ [](\A r \in Requests : slot[r] = "closed" =>
              \/ r \in Queued
              \/ \E m \in inflight : m.respond_to = r
              \/ r \in completed \cap discarded)
    /\ []((queue # << >> \/ inflight # { }) => ENABLED (ActorRecv \/ LookupComplete))
    /\ [][\A r \in Requests :
              (slot[r] = "closed" /\ r \in completed' \ completed) =>
                  /\ r \in discarded'
                  /\ slot' = slot /\ rpc' = rpc /\ lastReturn' = lastReturn
                  /\ queue' = queue
                  /\ actorPc' = "recv"]_vars

\* C10 witness: a reply was discarded for a dropped caller and a request
\* enqueued after it got its result.
C10_Witness ==
    \E d \in discarded : \E r \in Enqueued :
        /\ EnqPos(d) < EnqPos(r)
        /\ rpc[r] = "returned"

-----------------------------------------------------------------------------
(* Claims about what the server loop receives, builds and sends, checked   *)
(* under Spec.                                                             *)

\* the datagram received from address a, and what became of it
ReceivedFrom(a) == recvLog[CHOOSE i \in 1..Len(recvLog) : recvLog[i].addr = a]
SentTo(a) == { k \in 1..Len(sent) : sent[k].to = a }
ResolvedFor(a) == SelectSeq(resolveLog, LAMBDA e : e.addr = a)
IterationOver(a) == cur.addr # a

\* C11 (as claimed): a datagram that fails to decode (too short, malformed
\* label, truncated question, bad compression pointer) gets no datagram in
\* reply, and the loop goes on running to receive and serve the next one.
C11_DecodeFailureIsDropped ==
    \A i \in 1..Len(recvLog) :
        recvLog[i].kind # "packet" =>
            /\ SentTo(recvLog[i].addr) = { }
            /\ LoopRunning

\* C12: when encoding the built response failed, the bytes handed to send_to
\* and the bytes sent are the bytes received, not what encode had written, and
\* the client is sent exactly one datagram.
C12_EncodeFailureEchoesQuery ==
    \A i \in 1..Len(buildLog) :
        ~buildLog[i].encoded_ok =>
            LET a == buildLog[i].addr
            IN /\ (mainPc = "send_to" /\ cur.addr = a) =>
                      (outgoing = ReceivedFrom(a).buf /\ SentTo(a) = { })
               /\ \A k \in SentTo(a) : sent[k].bytes = ReceivedFrom(a).buf
               /\ IterationOver(a) => Cardinality(SentTo(a)) = 1

\* C12 witness: the echo of a query whose response did not encode has been
\* sent, and encode had written bytes of the response before it failed.
C12_Witness ==
    \E i \in 1..Len(buildLog) :
        /\ ~buildLog[i].encoded_ok
        /\ encode(buildLog[i].packet, << >>).dst # << >>
        /\ IterationOver(buildLog[i].addr)
        /\ SentTo(buildLog[i].addr) # { }

\* C13 (as claimed): every datagram the server sends is a DNS response to
\* the query it answers: it has a header, its QR bit is set and its
\* identifier is the identifier of the datagram received from that client.
C13_OnlyValidResponsesSent ==
    \A k \in 1..Len(sent) :
        /\ Len(sent[k].bytes) >= HEADER_LEN
        /\ sent[k].bytes[3] >= 128
        /\ be_u16_at(sent[k].bytes, 0) = be_u16_at(ReceivedFrom(sent[k].to).buf, 0)

\* what the claim expects of an answer: its name, TTL and address bytes
AnswerFacts(answers) ==
    [i \in 1..Len(answers) |->
        [name |-> answers[i].name, ttl |-> answers[i].ttl, rdata |-> answers[i].rdata]]

\* the answers the values of resolve call for, in the order of the calls
RECURSIVE ExpectedAnswers(_)
ExpectedAnswers(entries) ==
    IF entries = << >> THEN << >>
    ELSE LET e == Head(entries)
             own == IF e.value.some
                    THEN [i \in 1..Len(e.value.ips) |->
                             [name |-> e.name, ttl |-> 60,
                              rdata |-> e.value.ips[i].octets]]
                    ELSE << >>
         IN own \o ExpectedAnswers(Tail(entries))

\* C14: within one datagram the questions are resolved one after another in
\* list order (a call of resolve is made only when all earlier calls have
\* returned, and the calls made for a datagram are for its first questions, in
\* order), and the answers of the built response are the concatenation, in
\* that order, of the returned address lists, one answer per address, named
\* after its question, TTL 60; a None adds nothing.
C14_SequentialInOrderAnswers ==
    /\ \A r \in Enqueued : \A r2 \in 1..(r - 1) : rpc[r2] = "returned"
    /\ (mainPc = "resolve") =>
          /\ Len(ResolvedFor(cur.addr)) = qidx - 1
          /\ rpc[awaited] # "new"
          /\ \A m \in inflight : m.respond_to = awaited => m.name = cur.packet.questions[qidx].name
    /\ \A i \in 1..Len(buildLog) :
          LET entries == ResolvedFor(buildLog[i].addr)
              questions == buildLog[i].query.questions
          IN /\ Len(entries) = Len(questions)
             /\ \A k \in 1..Len(entries) : entries[k].name = questions[k].name
             /\ AnswerFacts(buildLog[i].packet.answers) = ExpectedAnswers(entries)

\* C14 witness: a response to two questions was built, the first resolved to
\* two addresses and the second to one.
C14_Witness ==
    \E i \in 1..Len(buildLog) :
        LET entries == ResolvedFor(buildLog[i].addr)
        IN /\ Len(entries) = 2
           /\ entries[1].value.some /\ Len(entries[1].value.ips) = 2
           /\ entries[2].value.some /\ Len(entries[2].value.ips) = 1
           /\ Len(buildLog[i].packet.answers) = 3

\* C15: every response the loop builds has qr = true, aa = false, ra = false
\* and z = 0, with answers and without.
C15_ResponseFlags ==
    \A i \in 1..Len(buildLog) :
        LET h == buildLog[i].packet.header
        IN h.qr /\ ~h.aa /\ ~h.ra /\ h.z = 0

\* C15 witness: a response with answers and a response to a query whose
\* questions all resolved to None have been built.
C15_Witness ==
    /\ \E i \in 1..Len(buildLog) : buildLog[i].packet.answers # << >>
    /\ \E i \in 1..Len(buildLog) :
          /\ buildLog[i].query.questions # << >>
          /\ buildLog[i].packet.answers = << >>

-----------------------------------------------------------------------------
(* Claims about the response builder, checked under SpecBuilder.           *)

BuiltByBuild == rbBuilt.kind = "build"
BuiltAny == rbBuilt.kind # "none"

\* build took its branch for a builder that holds questions
ExplicitBranch == BuiltByBuild /\ rbBuilt.before.questions # << >>
\* the packet came from build_response, called directly or by build
EchoBranch ==
    \/ rbBuilt.kind = "build_response"
    \/ BuiltByBuild /\ rbBuilt.before.questions = << >>

AnswerAdders ==
    { "with_an_answer", "with_aaaa_answer", "with_cname_answer", "with_txt_answer",
      "with_mx_answer" }
Adders == AnswerAdders \cup { "with_question" }

\* C16: whatever the query and whatever fluent operations were applied, on a
\* new builder or a used one, the packet returned by build or by
\* build_response carries the identifier of the query packet.
C16_BuiltCarriesQueryId ==
    BuiltAny => rbBuilt.packet.header.id = rbBuilt.query.header.id

\* C16 witness: build returned a packet from a builder that held questions
\* and, from an earlier build, the identifier of another query.
C16_Witness ==
    /\ ExplicitBranch
    /\ rbBuilt.before.response_header.id \notin { 0, rbBuilt.query.header.id }
    /\ rbBuilt.packet.header.id = rbBuilt.query.header.id

\* C17 (as claimed): build on a builder to which no fluent operation was
\* applied gives the query's identifier, rd and opcode, qr = true, aa = false,
\* ra = true, rcode = 0, the query's questions and the builder's answers.
C17_DefaultEchoMode ==
    (BuiltByBuild /\ rbBuilt.applied = { }) =>
        LET h == rbBuilt.packet.header
            q == rbBuilt.query
        IN /\ h.id = q.header.id
           /\ h.rd = q.header.rd
           /\ h.opcode = q.header.opcode
           /\ h.qr /\ ~h.aa /\ h.ra /\ h.rcode = 0
           /\ rbBuilt.packet.questions = q.questions
           /\ rbBuilt.packet.answers = rbBuilt.before.answers

\* C18 (as claimed): in default echo mode the ancount of the built header is
\* the number of answers of the built packet.
C18_EchoAncountIsAnswerCount ==
    EchoBranch => rbBuilt.packet.header.ancount = Len(rbBuilt.packet.answers)

\* C19 (as claimed): when a custom question or an answer was added through a
\* fluent adder, the questions of the packet build returns are the builder's
\* accumulated questions and its answers the builder's accumulated answers.
C19_AddersGiveExplicitMode ==
    (BuiltByBuild /\ rbBuilt.applied \cap Adders # { }) =>
        /\ rbBuilt.packet.questions = rbBuilt.before.questions
        /\ rbBuilt.packet.answers = rbBuilt.before.answers

\* C20: when build takes the explicit branch, the rcode of the packet is 0
\* for a query of opcode 0 and 4 for any other opcode, whatever with_rcode set.
C20_ExplicitRcodeFromOpcode ==
    ExplicitBranch =>
        rbBuilt.packet.header.rcode = (IF rbBuilt.query.header.opcode = 0 THEN 0 ELSE 4)

\* C20 witness: with_rcode(3) was applied, the query has opcode 2, and the
\* packet of the explicit branch has rcode 4.
C20_Witness ==
    /\ ExplicitBranch
    /\ "with_rcode" \in rbBuilt.applied
    /\ rbBuilt.before.response_header.rcode = 3
    /\ rbBuilt.query.header.opcode = 2
    /\ rbBuilt.packet.header.rcode = 4

\* C21: when the builder holds no question at build, the rcode, aa, qr, z and
\* ra that with_rcode(3), with_authoritative(true), with_qr(false), with_z(5)
\* and with_recursion_available(false) set are the ones of the built header,
\* which has these five fields as the builder had them before build.
C21_FlagsSurviveEchoBuild ==
    (BuiltByBuild /\ rbBuilt.before.questions = << >>) =>
        LET h == rbBuilt.packet.header
            t == rbBuilt.before.response_header
        IN /\ "with_rcode" \in rbBuilt.applied => h.rcode = 3
           /\ "with_authoritative" \in rbBuilt.applied => h.aa
           /\ "with_qr" \in rbBuilt.applied => ~h.qr
           /\ "with_z" \in rbBuilt.applied => h.z = 5
           /\ "with_recursion_available" \in rbBuilt.applied => ~h.ra
           /\ <<h.rcode, h.aa, h.qr, h.z, h.ra>> = <<t.rcode, t.aa, t.qr, t.z, t.ra>>

\* C21 witness: with_rcode(3) and with_authoritative(true) and nothing else
\* were applied, and build returned rcode 3 and aa true for a query of
\* opcode 2.
C21_Witness ==
    /\ BuiltByBuild
    /\ rbBuilt.before.questions = << >>
    /\ rbBuilt.applied = { "with_rcode", "with_authoritative" }
    /\ rbBuilt.query.header.opcode = 2
    /\ rbBuilt.packet.header.rcode = 3
    /\ rbBuilt.packet.header.aa

\* the builder right after a call of with_an_answer(NameAB, ip, 60)
AfterWithAnAnswer == rbCall.name = "with_an_answer"
NewAnswer == rbBuilder.answers[Len(rbBuilder.answers)]

\* C22 (as claimed): the record that with_an_answer appends has type A and a
\* payload of 4 bytes for an IPv4 address, type AAAA and a payload of 16 bytes
\* for an IPv6 address.
C22_AnswerTypeFollowsFamily ==
    AfterWithAnAnswer =>
        /\ Len(rbBuilder.answers) = Len(rbCall.before.answers) + 1
        /\ IF rbCall.arg.v6
           THEN NewAnswer.rtype = DNS_TYPE_AAAA /\ Len(NewAnswer.rdata) = 16
           ELSE NewAnswer.rtype = DNS_TYPE_A /\ Len(NewAnswer.rdata) = 4

\* C23: after every call of with_an_answer, whatever the builder held, its
\* questions are the one entry (name, A, IN), its qdcount is 1, and its
\* answers are the earlier answers in their order followed by the new one.
C23_AnswerResetsQuestions ==
    AfterWithAnAnswer =>
        LET n == Len(rbCall.before.answers)
        IN /\ rbBuilder.questions =
                  << [name |-> NameAB, qtype |-> DNS_TYPE_A, qclass |-> DNS_CLASS_IN] >>
           /\ rbBuilder.response_header.qdcount = 1
           /\ Len(rbBuilder.answers) = n + 1
           /\ SubSeq(rbBuilder.answers, 1, n) = rbCall.before.answers
           /\ NewAnswer.name = NameAB
           /\ NewAnswer.rdata = rbCall.arg.octets
           /\ NewAnswer.ttl = 60

\* C23 witness: with_an_answer was called on a builder that held a question
\* for another name and an answer already.
C23_Witness ==
    /\ AfterWithAnAnswer
    /\ rbCall.before.questions # << >>
    /\ rbCall.before.questions[1].name = NameBDot
    /\ rbCall.before.answers # << >>
    /\ Len(rbBuilder.questions) = 1
    /\ Len(rbBuilder.answers) = 2

\* C24 (as claimed): the packet of an assembly made on a used builder after
\* clear_answers is the packet that the same query and the same fluent
\* operations give on a builder made by new.
C24_ReusableAfterClearAnswers ==
    (BuiltByBuild /\ rbBuilt.reuse = "cleared") => rbBuilt.packet = rbBuilt.fresh

-----------------------------------------------------------------------------
(* Claims about encoding and decoding, checked under SpecCodec.            *)

\* decode has run on the bytes that encode wrote for the packet corigin.packet
RoundTrip == cpc = "done" /\ corigin.kind = "packet"

FitsWire(h) == h.opcode < 16 /\ h.z < 8 /\ h.rcode < 16
CountsMatch(p) ==
    p.header.qdcount = Len(p.questions) /\ p.header.ancount = Len(p.answers)

\* C25: for a packet whose header has opcode, z and rcode within 4, 3 and 4
\* bits and qdcount and ancount equal to the sizes of its lists, decoding the
\* encoded packet gives a packet with the same header.
C25_HeaderRoundTrip ==
    (RoundTrip /\ FitsWire(corigin.packet.header) /\ CountsMatch(corigin.packet)) =>
        /\ cout.kind = "packet"
        /\ cout.packet.header = corigin.packet.header

\* C25 witness: a header with every flag field at its largest value, tc set,
\* nscount and arcount not 0, two questions and an answer came back.
C25_Witness ==
    /\ RoundTrip
    /\ CountsMatch(corigin.packet)
    /\ Len(corigin.packet.questions) = 2 /\ Len(corigin.packet.answers) = 1
    /\ corigin.packet.header.opcode = 15
    /\ corigin.packet.header.z = 7
    /\ corigin.packet.header.tc
    /\ cout.kind = "packet"
    /\ cout.packet.header = corigin.packet.header

\* a name without its trailing dot, and the labels it is made of
Norm(name) ==
    IF name # << >> /\ name[Len(name)] = DOT THEN SubSeq(name, 1, Len(name) - 1)
    ELSE name
WellLabelled(name) ==
    \A k \in DOMAIN split_dot(Norm(name)) :
        /\ split_dot(Norm(name))[k] # << >>
        /\ Len(split_dot(Norm(name))[k]) <= MAX_LABEL

\* C26: when every question name of a packet is made of non-empty labels of
\* at most 63 bytes, decoding the encoded packet gives the same number of
\* questions, each with its name (without a trailing dot), type and class,
\* in the same order.
C26_NameRoundTrip ==
    (RoundTrip /\ \A i \in DOMAIN corigin.packet.questions :
                     WellLabelled(corigin.packet.questions[i].name)) =>
        /\ cout.kind = "packet"
        /\ Len(cout.packet.questions) = Len(corigin.packet.questions)
        /\ \A i \in DOMAIN corigin.packet.questions :
              cout.packet.questions[i] =
                  [corigin.packet.questions[i] EXCEPT
                       !.name = Norm(corigin.packet.questions[i].name)]

\* C26 witness: two questions, one for a name of a 63-byte label and one for
\* a name with a two-byte character, came back in order.
C26_Witness ==
    /\ RoundTrip
    /\ Len(corigin.packet.questions) = 2
    /\ corigin.packet.questions[1].name = Name63
    /\ corigin.packet.questions[2].name = NameUtf8
    /\ cout.kind = "packet"
    /\ cout.packet.questions = corigin.packet.questions

HasLongLabel(name) ==
    \E k \in DOMAIN split_dot(name) : Len(split_dot(name)[k]) > MAX_LABEL

\* C27: encode of a packet in which a question name or an answer name has a
\* label of more than 63 bytes, first, inner or last of the name, in any
\* question or answer, returns Err(InvalidDomainName).
C27_LongLabelRejected ==
    (Encoded /\ (\/ \E i \in DOMAIN cin.questions : HasLongLabel(cin.questions[i].name)
                 \/ \E i \in DOMAIN cin.answers : HasLongLabel(cin.answers[i].name))) =>
        ~cout.result.ok

\* C27 witness: the only long label is an inner label of the name of an
\* answer that follows a question, and encode failed.
C27_Witness ==
    /\ Encoded
    /\ ~cout.result.ok
    /\ cin.questions # << >>
    /\ \A i \in DOMAIN cin.questions : ~HasLongLabel(cin.questions[i].name)
    /\ Len(cin.answers) = 1
    /\ cin.answers[1].name = NameLong

NonEmpty(label) == label # << >>
\* the name with its empty labels taken out
Stripped(name) == join_dot(SelectSeq(split_dot(name), NonEmpty))
StrippedNames(items) == [i \in DOMAIN items |-> [items[i] EXCEPT !.name = Stripped(@)]]

RECURSIVE LabelBytes(_)
LabelBytes(labels) ==
    IF labels = << >> THEN << >>
    ELSE (<< Len(Head(labels)) >> \o Head(labels)) \o LabelBytes(Tail(labels))

\* the bytes a name has on the wire: its non-empty labels, then one 0
WireName(name) == Append(LabelBytes(SelectSeq(split_dot(name), NonEmpty)), 0)

\* C28: a packet whose names have a trailing dot, a leading dot or two dots
\* in a row is encoded to the bytes of the packet whose names are without
\* their empty labels, and its first name is written as its non-empty
\* labels followed by a single 0.
C28_EmptyLabelsSkipped ==
    (Encoded /\ cout.result.ok) =>
        /\ cout.result = encode([cin EXCEPT !.questions = StrippedNames(@),
                                            !.answers = StrippedNames(@)], << >>)
        /\ cin.questions # << >> =>
              LET w == WireName(cin.questions[1].name)
              IN /\ Len(cout.result.dst) >= HEADER_LEN + Len(w)
                 /\ SubSeq(cout.result.dst, HEADER_LEN + 1, HEADER_LEN + Len(w)) = w

\* C28 witness: a packet with the names "a..b" and ".b" was encoded to the
\* bytes of 1 'a' 1 'b' 0 and 1 'b' 0.
C28_Witness ==
    /\ Encoded
    /\ cout.result.ok
    /\ Len(cin.questions) = 2
    /\ cin.questions[1].name = NameDotDot
    /\ cin.questions[2].name = NameLeadDot
    /\ cin.answers = << >>
    /\ SubSeq(cout.result.dst, HEADER_LEN + 1, Len(cout.result.dst)) =
          << 1, 97, 1, 98, 0, 0, 1, 0, 1, 1, 98, 0, 0, 1, 0, 1 >>

\* a buffer shorter than a header was given to decode
ShortDecoded == Decoded /\ corigin = NoOrigin /\ Len(cin) < HEADER_LEN

\* C29 (as claimed): decode of a buffer of fewer than 12 bytes returns
\* Err(IncompletePacket) with needed = 12 and available = the length of the
\* buffer.
C29_ShortBufferNeedsMoreData ==
    ShortDecoded =>
        /\ cout.kind = "incomplete_packet"
        /\ cout.needed = HEADER_LEN
        /\ cout.available = Len(cin)

\* C30: decode of a buffer of fewer than 12 bytes returns Ok(None) and leaves
\* the buffer as it was; whenever decode returns anything but a packet the
\* buffer is as it was, and when it returns a packet what is left is the
\* end of the buffer.
C30_OnlyPacketConsumes ==
    Decoded =>
        /\ Len(cin) < HEADER_LEN => cout.kind = "none"
        /\ cout.kind # "packet" => cout.src = cin
        /\ cout.kind = "packet" =>
              /\ Len(cout.src) <= Len(cin) - HEADER_LEN
              /\ cout.src = SubSeq(cin, Len(cin) - Len(cout.src) + 1, Len(cin))

\* C30 witness: an 11-byte buffer came back whole with Ok(None).
C30_Witness ==
    /\ ShortDecoded
    /\ Len(cin) = HEADER_LEN - 1
    /\ cout.kind = "none"
    /\ cout.src = cin

\* C31: every packet that decode returns has no answers, whatever ancount its
\* header declares, and as many questions as its header's qdcount.
C31_DecodedQuestionsOnly ==
    (Decoded /\ cout.kind = "packet") =>
        /\ cout.packet.answers = << >>
        /\ Len(cout.packet.questions) = cout.packet.header.qdcount

\* C31 witness: the bytes of a packet with two questions and an answer were
\* decoded to a packet whose header declares one answer.
C31_Witness ==
    /\ RoundTrip
    /\ cout.kind = "packet"
    /\ cout.packet.header.ancount = 1
    /\ cout.packet.header.qdcount = 2
    /\ Len(cout.packet.questions) = 2
    /\ cout.packet.answers = << >>

\* where a name of plain labels (no pointer) that starts at offset pos of
\* dgram ends; Len(dgram) + 1 when the datagram ends before the name does,
\* Len(dgram) + 2 when the name is not made of plain labels
RECURSIVE PlainNameEnd(_, _)
PlainNameEnd(dgram, pos) ==
    IF pos >= Len(dgram) THEN Len(dgram) + 1
    ELSE IF dgram[pos + 1] = 0 THEN pos + 1
    ELSE IF dgram[pos + 1] > MAX_LABEL THEN Len(dgram) + 2
    ELSE IF pos + 1 + dgram[pos + 1] > Len(dgram) THEN Len(dgram) + 1
    ELSE PlainNameEnd(dgram, pos + 1 + dgram[pos + 1])

\* the datagram ends inside one of the n questions that start at offset pos:
\* in its name, its type or its class
RECURSIVE CutShortFrom(_, _, _)
CutShortFrom(dgram, pos, n) ==
    IF n = 0 THEN FALSE
    ELSE LET e == PlainNameEnd(dgram, pos)
         IN IF e = Len(dgram) + 1 THEN TRUE
            ELSE IF e = Len(dgram) + 2 THEN FALSE
            ELSE IF e + 4 > Len(dgram) THEN TRUE
            ELSE CutShortFrom(dgram, e + 4, n - 1)

CutShort(dgram) ==
    /\ Len(dgram) >= HEADER_LEN
    /\ CutShortFrom(dgram, HEADER_LEN, be_u16_at(dgram, 4))

\* C33 (as claimed): decode of a datagram of at least 12 bytes that ends
\* before the questions its qdcount declares are complete returns
\* Err(IncompletePacket), not a parse failure and not a packet.
C33_CutShortNeedsMoreData ==
    (Decoded /\ corigin = NoOrigin /\ CutShort(cin)) => cout.kind = "incomplete_packet"

\* the run of plain labels that starts at offset pos of dgram: the labels
\* and the offset of the byte that ends the run, a zero or a pointer tag
RECURSIVE PlainRun(_, _, _)
PlainRun(dgram, pos, labels) ==
    IF pos >= Len(dgram) THEN [end |-> "short"]
    ELSE IF dgram[pos + 1] = 0 THEN [end |-> "zero", at |-> pos, labels |-> labels]
    ELSE IF dgram[pos + 1] >= 192 THEN [end |-> "pointer", at |-> pos, labels |-> labels]
    ELSE IF dgram[pos + 1] > MAX_LABEL THEN [end |-> "reserved"]
    ELSE IF pos + 1 + dgram[pos + 1] > Len(dgram) THEN [end |-> "short"]
    ELSE PlainRun(dgram, pos + 1 + dgram[pos + 1],
                  Append(labels, from_utf8_lossy(SubSeq(dgram, pos + 2, pos + 1 + dgram[pos + 1]))))

PointerTarget(dgram, at) == (dgram[at + 1] % 64) * 256 + dgram[at + 2]

\* the name at offset pos is plain labels and then a pointer to a name of
\* plain labels, and the two 16-bit fields after the pointer are there
PointerEnded(dgram, pos) ==
    \E r \in { PlainRun(dgram, pos, << >>) } :
        /\ r.end = "pointer"
        /\ r.at + 6 <= Len(dgram)
        /\ PlainRun(dgram, PointerTarget(dgram, r.at), << >>).end = "zero"

\* the question the claim expects at offset pos
PointerQuestion(dgram, pos) ==
    LET r == PlainRun(dgram, pos, << >>)
        t == PlainRun(dgram, PointerTarget(dgram, r.at), << >>)
    IN [name |-> join_dot(r.labels \o t.labels),
        qtype |-> be_u16_at(dgram, r.at + 2),
        qclass |-> be_u16_at(dgram, r.at + 4)]

\* C34: a question whose name ends in a compression pointer is parsed to
\* the labels before the pointer followed by the labels at the pointer's
\* target, with type and class read from the two 16-bit fields right after
\* the two pointer bytes; a decoded packet's first question is that one.
C34_PointerEndedName ==
    (Decoded /\ corigin = NoOrigin) =>
        /\ \A pos \in HEADER_LEN..(Len(cin) - 1) :
              PointerEnded(cin, pos) =>
                  \E q \in { parse_dns_question(cin, pos) } :
                      /\ q.kind = "ok"
                      /\ q.question = PointerQuestion(cin, pos)
                      /\ q.rest = PlainRun(cin, pos, << >>).at + 6
        /\ (cout.kind = "packet" /\ cout.packet.questions # << >>
                /\ PointerEnded(cin, HEADER_LEN)) =>
              cout.packet.questions[1] = PointerQuestion(cin, HEADER_LEN)

\* C34 witness: a datagram whose first name is a label and then a pointer
\* was decoded to a packet of two questions.
C34_Witness ==
    /\ Decoded
    /\ corigin = NoOrigin
    /\ PointerEnded(cin, HEADER_LEN)
    /\ PlainRun(cin, HEADER_LEN, << >>).labels # << >>
    /\ cout.kind = "packet"
    /\ Len(cout.packet.questions) = 2
    /\ cout.packet.questions[1].name = << 99, DOT, 97, DOT, 98 >>
    /\ cout.packet.questions[1].qtype = DNS_TYPE_AAAA

\* C40 (as claimed): an encode that fails with InvalidDomainName leaves the
\* output buffer as it was before the call (the encoder is called with an
\* empty buffer).
C40_FailedEncodeLeavesBuffer ==
    (Encoded /\ ~cout.result.ok) => cout.result.dst = << >>

-----------------------------------------------------------------------------
(* Further claims about the response builder, checked under SpecBuilder.   *)

\* C35 (as claimed): the payload of every TXT answer the builder holds is one
\* length byte equal to the byte length of the text given to with_txt_answer
\* followed by the bytes of the text, for every text, those longer than 255
\* bytes included, and its rdlength is the byte count of the payload.
C35_TxtPayload ==
    \A i \in 1..Len(rbBuilder.answers) :
        rbBuilder.answers[i].rtype = DNS_TYPE_TXT =>
            \E text \in TxtTexts :
                /\ rbBuilder.answers[i].rdata = << Len(text) >> \o text
                /\ rbBuilder.answers[i].rdlength = Len(text) + 1

-----------------------------------------------------------------------------
(* Further claims about the server loop, checked under Spec.               *)

\* C32 (as claimed): the nscount and arcount of every response packet are
\* those of the decoded query, and the encoder writes them at offsets 8 and
\* 10 as they are.
C32_SectionCountsPassedThrough ==
    \A i \in 1..Len(buildLog) :
        /\ buildLog[i].packet.header.nscount = buildLog[i].query.header.nscount
        /\ buildLog[i].packet.header.arcount = buildLog[i].query.header.arcount
        /\ buildLog[i].encoded_ok =>
              \E dst \in { encode(buildLog[i].packet, << >>).dst } :
                  /\ be_u16_at(dst, 8) = buildLog[i].packet.header.nscount
                  /\ be_u16_at(dst, 10) = buildLog[i].packet.header.arcount

\* the values resolve returned for the datagram of address a, in call order
OwnValues(a) == [k \in 1..Len(ResolvedFor(a)) |-> ResolvedFor(a)[k].value]

QuestionNames(questions) == { questions[k].name : k \in 1..Len(questions) }

\* C36: the response to a datagram is built only from the query decoded from
\* that datagram and from the lookups made for it: its id, its rd flag, the
\* names of its questions and its answers come from them, two datagrams with the same
\* query and the same lookup values get the same response whatever was
\* received before or in between, and what is sent to a client is the
\* encoding of its response or its own bytes.
C36_DatagramIsolation ==
    /\ \A i \in 1..Len(buildLog) :
          \E own \in { ResolvedFor(buildLog[i].addr) } :
          \E d \in { decode(ReceivedFrom(buildLog[i].addr).buf) } :
              /\ d.kind = "packet"
              /\ buildLog[i].query = d.packet
              /\ buildLog[i].packet.header.id = d.packet.header.id
              /\ buildLog[i].packet.header.rd = d.packet.header.rd
              /\ QuestionNames(buildLog[i].packet.questions)
                    \subseteq QuestionNames(d.packet.questions)
              /\ Len(own) = Len(d.packet.questions)
              /\ \A k \in 1..Len(own) : own[k].name = d.packet.questions[k].name
              /\ AnswerFacts(buildLog[i].packet.answers) = ExpectedAnswers(own)
    /\ \A i, j \in 1..Len(buildLog) :
          (/\ buildLog[i].query = buildLog[j].query
           /\ OwnValues(buildLog[i].addr) = OwnValues(buildLog[j].addr))
              => buildLog[i].packet = buildLog[j].packet
    /\ \A k \in 1..Len(sent) :
          \E i \in 1..Len(buildLog) :
              /\ buildLog[i].addr = sent[k].to
              /\ sent[k].bytes = IF buildLog[i].encoded_ok
                                 THEN encode(buildLog[i].packet, << >>).dst
                                 ELSE ReceivedFrom(sent[k].to).buf

\* C36 witness: two datagrams, arrived at any two moments of the loop, both
\* got a response with answers, to different queries.
C36_Witness ==
    /\ Len(buildLog) = 2
    /\ Len(sent) = 2
    /\ buildLog[1].query.questions # buildLog[2].query.questions
    /\ buildLog[1].packet.answers # << >>
    /\ buildLog[2].packet.answers # << >>
    /\ buildLog[1].packet.answers # buildLog[2].packet.answers

\* the positions of the calls of resolve, among entries, that returned
\* addresses
ResolvedAt(entries) == { k \in 1..Len(entries) : entries[k].value.some }

LastOf(S) == CHOOSE k \in S : \A m \in S : m <= k

\* C38: the question section of a response is the list of questions of the
\* query, unchanged, when no question resolved to an address; otherwise it
\* is exactly one question: the name of the last question, in query order,
\* that resolved, with type A and class IN.
C38_ResponseQuestionSection ==
    \A i \in 1..Len(buildLog) :
        \E own \in { ResolvedFor(buildLog[i].addr) } :
            /\ Len(own) = Len(buildLog[i].query.questions)
            /\ IF ResolvedAt(own) = { }
               THEN buildLog[i].packet.questions = buildLog[i].query.questions
               ELSE buildLog[i].packet.questions =
                        << [name |-> buildLog[i].query.questions[LastOf(ResolvedAt(own))].name,
                            qtype |-> DNS_TYPE_A,
                            qclass |-> DNS_CLASS_IN] >>

\* C38 witness: of a query's two questions the first resolved and the
\* second did not, and the response carries the first name alone; and a
\* query for an AAAA record that resolved got a question of type A.
C38_Witness ==
    /\ \E i \in 1..Len(buildLog) :
          \E own \in { ResolvedFor(buildLog[i].addr) } :
              /\ Len(own) = 2
              /\ ResolvedAt(own) = { 1 }
              /\ buildLog[i].query.questions[1].name # buildLog[i].query.questions[2].name
              /\ Len(buildLog[i].packet.questions) = 1
              /\ buildLog[i].packet.questions[1].name = buildLog[i].query.questions[1].name
    /\ \E i \in 1..Len(buildLog) :
          /\ buildLog[i].query.questions # << >>
          /\ buildLog[i].query.questions[1].qtype = DNS_TYPE_AAAA
          /\ ResolvedAt(ResolvedFor(buildLog[i].addr)) # { }
          /\ buildLog[i].packet.questions[1].qtype = DNS_TYPE_A

\* the names of a packet: of its questions and of its answers
PacketNames(packet) ==
    QuestionNames(packet.questions)
        \cup { packet.answers[k].name : k \in 1..Len(packet.answers) }

\* C39 (as claimed): every name a successful decode produced is accepted by
\* the encoder, so the encoding of a response whose names come from the
\* decoded query never fails and the echo of the received bytes is never
\* what is sent.
C39_DecodedNamesEncode ==
    \A i \in 1..Len(buildLog) :
        PacketNames(buildLog[i].packet) \subseteq PacketNames(buildLog[i].query) =>
            /\ encode(buildLog[i].query, << >>).ok
            /\ buildLog[i].encoded_ok

-----------------------------------------------------------------------------
(* Termination of resolve, checked under SpecResolveFair: callers that     *)
(* await resolve to its end, as main does; the runtime polls the worker    *)
(* task and every woken sender, and every upstream lookup completes.       *)

SpecResolveInit ==
    /\ MailboxInit
    /\ namePlan = "alternate"
    /\ CodecIdle
    /\ ServerIdle
    /\ BuilderIdle

ResolveNext ==
    \/ Call
    \/ \E r \in Requests : SendResume(r)
    \/ ActorRecv
    \/ LookupComplete

SpecResolveFair ==
    /\ SpecResolveInit
    /\ [][ResolveNext]_vars
    /\ WF_vars(ActorRecv)
    /\ WF_vars(LookupComplete)
    /\ \A r \in Requests : WF_vars(SendResume(r))

\* the call r of resolve was made and has not returned
Pending(r) == rpc[r] \in { "blocked", "woken", "await_reply" }

\* C37: if every upstream lookup completes and the runtime polls the worker
\* and the woken senders, every call of resolve returns a value, whether it
\* found the queue full or not.
C37_ResolveReturns ==
    \A r \in Requests : Pending(r) ~> (rpc[r] = "returned")

\* C37 witness: a call that found the queue full has returned a value.
C37_Witness ==
    \E r \in everBlocked :
        /\ rpc[r] = "returned"
        /\ lastReturn.req = r
        /\ lastReturn.value \in { None } \cup { Some(o.ips) : o \in UpstreamOutcomes(lastReturn.name) }

====
